---- MODULE Spec2Model ----
(***************************************************************************)
(* Message-history reconciliation of agent-sdk-go: the Gemini and Azure    *)
(* OpenAI message history builders (pkg/llm/gemini/message_history.go,     *)
(* pkg/llm/azureopenai/message_history.go) and the OpenAI client's         *)
(* Generate, Chat and GenerateWithTools entry points, which assemble a     *)
(* request from a built history and, for GenerateWithTools, run the        *)
(* tool-call loop (pkg/llm/openai/client.go), with the generation options  *)
(* and the tuning of each request, and the tracing middleware TracedLLM    *)
(* that wraps a client.                                                    *)
(*                                                                         *)
(* Text is a sequence of fragments: "" is << >>, "Hi" is <<"Hi">>, and     *)
(* fmt.Sprintf("System: %s", c) is <<"System: ">> \o c.  Identifiers       *)
(* (roles, tool names, tool call ids) are plain strings.                   *)
(***************************************************************************)
EXTENDS Integers, Sequences, FiniteSets, TLC

VARIABLES
    mem,    \* the caller's Memory Store: kind "nil" (no store), "ok", or "err" (GetMessages fails)
    call,   \* the call in progress or just returned: its inputs and what it produced
    client  \* the OpenAIClient the calls are made on: its Model, and whether it has a retryExecutor

vars == <<mem, call, client>>

---------------------------------------------------------------------------
(* Bounds *)

\* Longest conversation held by the Memory Store.
MaxMem == 3

\* Most tool calls carried by one assistant message.
MaxToolCalls == 2

\* Rounds of one tool loop in which the vendor's answer and the tools'
\* outcomes vary freely; in later rounds the vendor fails, answers, or keeps
\* asking for one tool call, which succeeds.
MaxRounds == 2

\* Attempts the retry policy allows for one operation.
MaxAttempts == 2

SeqsUpTo(S, n) == UNION {[1..k -> S] : k \in 0..n}

---------------------------------------------------------------------------
(* Text *)

EmptyStr == << >>

Txt(s) == <<s>>

\* fmt.Sprintf("System: %s", content)
SystemPrefixed(content) == <<"System: ">> \o content

---------------------------------------------------------------------------
(* Serialized tool-call arguments: the byte string at token granularity.   *)
(* A string literal or a number is one token; whitespace is a token.       *)

Tok(t, v) == [t |-> t, v |-> v]

LBrace == Tok("{", "")
RBrace == Tok("}", "")
LBrack == Tok("[", "")
RBrack == Tok("]", "")
Colon  == Tok(":", "")
Comma  == Tok(",", "")
Space  == Tok("ws", "")
NullTok == Tok("null", "")
StrTok(s) == Tok("str", s)
NumTok(s) == Tok("num", s)

\* encoding/json: insignificant whitespace between tokens is skipped.
StripSpace(s) == SelectSeq(s, LAMBDA t : t.t # "ws")

IsScalarTok(t) == t.t \in {"str", "num", "null"}

\* "{" [ string ":" scalar { "," string ":" scalar } ] "}" on whitespace-free tokens.
IsObjectText(s) ==
    /\ Len(s) >= 2
    /\ s[1] = LBrace
    /\ s[Len(s)] = RBrace
    /\ LET inner == SubSeq(s, 2, Len(s) - 1)
       IN  \/ inner = << >>
           \/ /\ Len(inner) % 4 = 3
              /\ \A i \in 1..Len(inner) :
                    CASE i % 4 = 1 -> inner[i].t = "str"
                      [] i % 4 = 2 -> inner[i] = Colon
                      [] i % 4 = 3 -> IsScalarTok(inner[i])
                      [] OTHER     -> inner[i] = Comma

\* "[" [ scalar { "," scalar } ] "]" on whitespace-free tokens.
IsArrayText(s) ==
    /\ Len(s) >= 2
    /\ s[1] = LBrack
    /\ s[Len(s)] = RBrack
    /\ LET inner == SubSeq(s, 2, Len(s) - 1)
       IN  \/ inner = << >>
           \/ /\ Len(inner) % 2 = 1
              /\ \A i \in 1..Len(inner) :
                    IF i % 2 = 1 THEN IsScalarTok(inner[i]) ELSE inner[i] = Comma

\* json.Unmarshal first checks that the whole input is one valid JSON value.
IsValidJSON(s) ==
    \/ Len(s) = 1 /\ IsScalarTok(s[1])
    \/ IsObjectText(s)
    \/ IsArrayText(s)

\* The members of an object text in the order written: <<key, value token>>.
MembersOf(s) ==
    LET inner == SubSeq(s, 2, Len(s) - 1)
        n == (Len(inner) + 1) \div 4
    IN  [i \in 1..n |-> <<inner[4 * (i - 1) + 1].v, inner[4 * (i - 1) + 3]>>]

\* Decoding into map[string]interface{}: a string stays a string, a number
\* becomes a float64, null a nil value; a repeated key keeps its last value.
DecodeMembers(ms) ==
    LET keys == {ms[i][1] : i \in 1..Len(ms)}
        last(k) == CHOOSE i \in 1..Len(ms) :
                       /\ ms[i][1] = k
                       /\ \A j \in 1..Len(ms) : ms[j][1] = k => j <= i
    IN  [k \in keys |-> ms[last(k)][2]]

EmptyMap == [k \in {} |-> NullTok]

\* A Go map[string]interface{} value: nil, or a map.
NilArgs == [isNil |-> TRUE, kv |-> EmptyMap]

MapArgs(kv) == [isNil |-> FALSE, kv |-> kv]

\* json.Unmarshal([]byte(arguments), &args) with args a nil map beforehand:
\* a syntax error or a non-object value is an error and leaves args nil; the
\* literal null is no error and leaves args nil; an object allocates the map.
jsonUnmarshal(arguments) ==
    LET s == StripSpace(arguments)
    IN  IF ~IsValidJSON(s) THEN [err |-> TRUE, args |-> NilArgs]
        ELSE IF s = <<NullTok>> THEN [err |-> FALSE, args |-> NilArgs]
        ELSE IF IsObjectText(s)
             THEN [err |-> FALSE, args |-> MapArgs(DecodeMembers(MembersOf(s)))]
        ELSE [err |-> TRUE, args |-> NilArgs]

---------------------------------------------------------------------------
(* interfaces.Message, interfaces.ToolCall *)

RoleUser      == "user"
RoleAssistant == "assistant"
RoleTool      == "tool"
RoleSystem    == "system"

ToolCall(id, name, arguments) == [id |-> id, name |-> name, arguments |-> arguments]

\* Metadata map[string]interface{}: nil, or a map in which "tool_name" is
\* absent ("none"), a string ("string") or a value of another type ("other").
NilMeta == [isNil |-> TRUE, toolName |-> "none", name |-> ""]

Meta(kind, name) == [isNil |-> FALSE, toolName |-> kind, name |-> name]

Message(role, content, toolCalls, toolCallID, metadata) ==
    [role |-> role, content |-> content, toolCalls |-> toolCalls,
     toolCallID |-> toolCallID, metadata |-> metadata]

UserMsg(content)      == Message(RoleUser, content, << >>, "", NilMeta)
SystemMsg(content)    == Message(RoleSystem, content, << >>, "", NilMeta)
AssistantMsg(content, toolCalls) == Message(RoleAssistant, content, toolCalls, "", NilMeta)
ToolMsg(content, id, metadata)   == Message(RoleTool, content, << >>, id, metadata)

---------------------------------------------------------------------------
(* genai.Content, genai.Part *)

TextPart(text) ==
    [kind |-> "text", text |-> text, name |-> "", args |-> NilArgs]

FunctionCallPart(name, args) ==
    [kind |-> "functionCall", text |-> EmptyStr, name |-> name, args |-> args]

\* FunctionResponse{Name: name, Response: {"result": content}}
FunctionResponsePart(name, content) ==
    [kind |-> "functionResponse", text |-> content, name |-> name, args |-> NilArgs]

Content(role, parts) == [role |-> role, parts |-> parts]

---------------------------------------------------------------------------
(* openai.ChatCompletionMessageParamUnion *)

ChatMsg(role, content, toolCallID, toolCalls) ==
    [role |-> role, content |-> content, toolCallID |-> toolCallID,
     toolCalls |-> toolCalls]

OpenAIUserMessage(content)      == ChatMsg("user", content, "", << >>)
OpenAIAssistantMessage(content) == ChatMsg("assistant", content, "", << >>)
OpenAISystemMessage(content)    == ChatMsg("system", content, "", << >>)
OpenAIToolMessage(content, id)  == ChatMsg("tool", content, id, << >>)

---------------------------------------------------------------------------
(* Memory Store *)

NilMemory == [kind |-> "nil", msgs |-> << >>]

\* Memory.GetMessages(ctx): the ordered messages, or an error.
GetMessages(memory) ==
    [err |-> memory.kind = "err",
     messages |-> IF memory.kind = "err" THEN << >> ELSE memory.msgs]

---------------------------------------------------------------------------
(* Gemini: messageHistoryBuilder.convertMemoryMessage *)

\* One pass of the loop over msg.ToolCalls: the parts it appends.
geminiFunctionCallParts_SkipOnError(toolCall) ==
    LET r == jsonUnmarshal(toolCall.arguments)
    IN  IF r.err THEN << >> ELSE <<FunctionCallPart(toolCall.name, r.args)>>

geminiFunctionCallParts_ArgsReset(toolCall) ==
    <<FunctionCallPart(toolCall.name, MapArgs(EmptyMap))>>

geminiFunctionCallParts(toolCall) ==
    LET r == jsonUnmarshal(toolCall.arguments)
        args == IF r.err THEN MapArgs(EmptyMap) ELSE r.args
    IN  <<FunctionCallPart(toolCall.name, args)>>

RECURSIVE geminiCallParts(_)
geminiCallParts(toolCalls) ==
    IF toolCalls = << >> THEN << >>
    ELSE geminiFunctionCallParts(Head(toolCalls)) \o geminiCallParts(Tail(toolCalls))

\* The parts of an assistant message that carries tool calls.
geminiAssistantParts_TextLast(msg) ==
    geminiCallParts(msg.toolCalls)
        \o (IF msg.content # EmptyStr THEN <<TextPart(msg.content)>> ELSE << >>)

geminiAssistantParts(msg) ==
    (IF msg.content # EmptyStr THEN <<TextPart(msg.content)>> ELSE << >>)
        \o geminiCallParts(msg.toolCalls)

geminiConvertAssistant_KeepEmpty(msg) ==
    IF Len(msg.toolCalls) > 0
    THEN <<Content("model", geminiAssistantParts(msg))>>
    ELSE <<Content("model", <<TextPart(msg.content)>>)>>

geminiConvertAssistant(msg) ==
    IF Len(msg.toolCalls) > 0
    THEN <<Content("model", geminiAssistantParts(msg))>>
    ELSE IF msg.content # EmptyStr
         THEN <<Content("model", <<TextPart(msg.content)>>)>>
    ELSE << >>

geminiToolName_AnyValue(msg) ==
    IF ~msg.metadata.isNil /\ msg.metadata.toolName # "none"
    THEN msg.metadata.name
    ELSE "unknown"

geminiToolName(msg) ==
    IF ~msg.metadata.isNil /\ msg.metadata.toolName = "string"
    THEN msg.metadata.name
    ELSE "unknown"

geminiConvertTool_NoIDCheck(msg) ==
    <<Content("user", <<FunctionResponsePart(geminiToolName(msg), msg.content)>>)>>

geminiConvertTool(msg) ==
    IF msg.toolCallID # ""
    THEN <<Content("user", <<FunctionResponsePart(geminiToolName(msg), msg.content)>>)>>
    ELSE << >>

geminiConvert_SystemUnprefixed(msg) ==
    CASE msg.role = RoleUser      -> <<Content("user", <<TextPart(msg.content)>>)>>
      [] msg.role = RoleAssistant -> geminiConvertAssistant(msg)
      [] msg.role = RoleTool      -> geminiConvertTool(msg)
      [] msg.role = RoleSystem    -> <<Content("user", <<TextPart(msg.content)>>)>>
      [] OTHER                    -> << >>

\* The converted entry as a sequence: << >> for a nil result.
geminiConvert(msg) ==
    CASE msg.role = RoleUser      -> <<Content("user", <<TextPart(msg.content)>>)>>
      [] msg.role = RoleAssistant -> geminiConvertAssistant(msg)
      [] msg.role = RoleTool      -> geminiConvertTool(msg)
      [] msg.role = RoleSystem    ->
            <<Content("user", <<TextPart(SystemPrefixed(msg.content))>>)>>
      [] OTHER                    -> << >>

(* Gemini: messageHistoryBuilder.buildContents *)

\* The loop over memoryMessages: each non-nil conversion is appended, in order.
RECURSIVE geminiConvertAll(_)
geminiConvertAll(msgs) ==
    IF msgs = << >> THEN << >>
    ELSE geminiConvert(Head(msgs)) \o geminiConvertAll(Tail(msgs))

buildContents_NilEmpty(prompt, params) ==
    IF params.Memory.kind # "nil"
    THEN LET r == GetMessages(params.Memory)
         IN  IF r.err THEN << >> ELSE geminiConvertAll(r.messages)
    ELSE << >>

buildContents_ErrAsNil(prompt, params) ==
    IF params.Memory.kind = "ok"
    THEN geminiConvertAll(GetMessages(params.Memory).messages)
    ELSE <<Content("user", <<TextPart(prompt)>>)>>

buildContents_AppendPrompt(prompt, params) ==
    LET r == GetMessages(params.Memory)
    IN  (IF params.Memory.kind # "nil" /\ ~r.err
         THEN geminiConvertAll(r.messages) ELSE << >>)
            \o <<Content("user", <<TextPart(prompt)>>)>>

buildContents(prompt, params) ==
    IF params.Memory.kind # "nil"
    THEN LET r == GetMessages(params.Memory)
         IN  IF r.err THEN << >> ELSE geminiConvertAll(r.messages)
    ELSE <<Content("user", <<TextPart(prompt)>>)>>

---------------------------------------------------------------------------
(* Azure OpenAI: messageHistoryBuilder.convertMemoryMessage, buildMessages *)

azureConvertAssistant(msg) ==
    IF msg.content # EmptyStr THEN <<OpenAIAssistantMessage(msg.content)>> ELSE << >>

azureConvertTool(msg) ==
    IF msg.toolCallID # ""
    THEN <<OpenAIToolMessage(msg.content, msg.toolCallID)>>
    ELSE << >>

azureConvert(msg) ==
    CASE msg.role = RoleUser      -> <<OpenAIUserMessage(msg.content)>>
      [] msg.role = RoleAssistant -> azureConvertAssistant(msg)
      [] msg.role = RoleTool      -> azureConvertTool(msg)
      [] msg.role = RoleSystem    -> <<OpenAISystemMessage(msg.content)>>
      [] OTHER                    -> << >>

\* The loop over memoryMessages: each non-nil conversion is appended, in order.
RECURSIVE azureConvertAll(_)
azureConvertAll(msgs) ==
    IF msgs = << >> THEN << >>
    ELSE azureConvert(Head(msgs)) \o azureConvertAll(Tail(msgs))

buildMessages(prompt, memory) ==
    IF memory.kind # "nil"
    THEN LET r == GetMessages(memory)
         IN  IF r.err THEN << >> ELSE azureConvertAll(r.messages)
    ELSE <<OpenAIUserMessage(prompt)>>

---------------------------------------------------------------------------
(* OpenAI: the package's own messageHistoryBuilder (message_history.go of  *)
(* pkg/llm/openai), called by Generate as buildMessages(ctx, prompt,       *)
(* memory); written from the Message History Builder contract.             *)

openaiConvert(msg) ==
    CASE msg.role = RoleUser      -> <<OpenAIUserMessage(msg.content)>>
      [] msg.role = RoleAssistant ->
            IF Len(msg.toolCalls) > 0
            THEN <<ChatMsg("assistant", msg.content, "", msg.toolCalls)>>
            ELSE IF msg.content # EmptyStr
                 THEN <<OpenAIAssistantMessage(msg.content)>>
            ELSE << >>
      [] msg.role = RoleTool      ->
            IF msg.toolCallID # ""
            THEN <<OpenAIToolMessage(msg.content, msg.toolCallID)>>
            ELSE << >>
      [] msg.role = RoleSystem    -> <<OpenAISystemMessage(msg.content)>>
      [] OTHER                    -> << >>

\* Each message converted independently, in original order, to zero or one entry.
RECURSIVE openaiConvertAll(_)
openaiConvertAll(msgs) ==
    IF msgs = << >> THEN << >>
    ELSE openaiConvert(Head(msgs)) \o openaiConvertAll(Tail(msgs))

openaiBuildMessages(prompt, memory) ==
    IF memory.kind # "nil"
    THEN LET r == GetMessages(memory)
         IN  IF r.err THEN << >> ELSE openaiConvertAll(r.messages)
    ELSE <<OpenAIUserMessage(prompt)>>

---------------------------------------------------------------------------
(* The calls a client makes on the Memory Store *)

\* One call on the store: the method, and the message handed over if any.
StoreCall(method, message) == [method |-> method, message |-> message]

\* The store after the calls: only AddMessage changes it.
RECURSIVE StoreAfter(_, _)
StoreAfter(memory, calls) ==
    IF calls = << >> THEN memory
    ELSE LET c == Head(calls)
             next == IF c.method = "AddMessage" /\ memory.kind = "ok"
                     THEN [memory EXCEPT !.msgs = Append(@, c.message)]
                     ELSE memory
         IN  StoreAfter(next, Tail(calls))

\* azureopenai: the calls buildMessages makes on the store.
buildMessagesCalls(memory) ==
    IF memory.kind # "nil" THEN <<StoreCall("GetMessages", NilMeta)>> ELSE << >>

\* openai: the calls the package's own buildMessages makes on the store.
openaiBuildMessagesCalls(memory) ==
    IF memory.kind # "nil" THEN <<StoreCall("GetMessages", NilMeta)>> ELSE << >>

\* openai: the calls GenerateWithTools makes on the store when it appends a
\* reply or a tool turn to messages.
AppendMemoryCalls_Persist(message) ==
    <<StoreCall("AddMessage", AssistantMsg(message.content, << >>))>>

AppendMemoryCalls(message) == << >>

---------------------------------------------------------------------------
(* OpenAI: OpenAIClient.Generate, from the options to the returned pair.   *)
(* The tuning fields of the request are not part of the message list and   *)
(* are left out here.                                                      *)

\* req.Messages: the system message, when set, then the built history.
GenerateMessages(prompt, params) ==
    (IF params.SystemMessage # EmptyStr
     THEN <<OpenAISystemMessage(params.SystemMessage)>> ELSE << >>)
        \o openaiBuildMessages(prompt, params.Memory)

\* The vendor's answer to one request: a transport error, or the choices.
VendorFailure(cause) == [err |-> TRUE, cause |-> cause, choices |-> << >>]

VendorError == VendorFailure("connection reset")

VendorChoices(choices) == [err |-> FALSE, cause |-> "", choices |-> choices]

\* One choice's message: its content and the tool calls it asks for.
VendorMessage(content, toolCalls) == [content |-> content, toolCalls |-> toolCalls]

---------------------------------------------------------------------------
(* OpenAI: generation options and the tuning of a request *)

\* A model name is the sequence of its characters.
HasPrefix(s, prefix) ==
    /\ Len(prefix) <= Len(s)
    /\ SubSeq(s, 1, Len(prefix)) = prefix

Mini == <<"m", "i", "n", "i">>

Gpt == <<"g", "p", "t", "-">>

reasoningModels ==
    << <<"o", "1", "-">>, <<"o", "1", "-">> \o Mini,
       <<"o", "1", "-", "p", "r", "e", "v", "i", "e", "w">>,
       <<"o", "3", "-">>, <<"o", "3", "-">> \o Mini,
       <<"o", "4", "-">>, <<"o", "4", "-">> \o Mini,
       Gpt \o <<"5">>, Gpt \o <<"5", "-">> \o Mini,
       Gpt \o <<"5", "-", "n", "a", "n", "o">> >>

isReasoningModel(model) ==
    \E i \in DOMAIN reasoningModels : HasPrefix(model, reasoningModels[i])

\* Temperatures, top-p and penalties are in tenths; a reasoning model is
\* sent 1.0.
ReasoningTemperature == 10

\* The temperature Generate and GenerateWithTools start from: 0.7.
DefaultTemperature == 7

\* The top-p GenerateWithTools fills in: 1.0.
DefaultTopP == 10

getTemperatureForModel_KeepRequested(c, requestedTemp) == requestedTemp

getTemperatureForModel(c, requestedTemp) ==
    IF isReasoningModel(c.Model) THEN ReasoningTemperature ELSE requestedTemp

\* *interfaces.LLMConfig: nil, or the configuration pointed to.
NilLLMConfig ==
    [nil |-> TRUE, Temperature |-> 0, TopP |-> 0, FrequencyPenalty |-> 0,
     PresencePenalty |-> 0, StopSequences |-> << >>, Reasoning |-> ""]

LLMConfig(temperature, topP) ==
    [NilLLMConfig EXCEPT !.nil = FALSE, !.Temperature = temperature, !.TopP = topP]

\* The GenerateOptions an option function is applied to, as far as tuning
\* goes; panic records a nil-pointer dereference while the options are
\* applied.
GenerateOptions(config) == [LLMConfig |-> config, panic |-> FALSE]

NilDereference(options) == [options EXCEPT !.panic = TRUE]

WithTemperature(options, temperature) ==
    IF options.LLMConfig.nil THEN NilDereference(options)
    ELSE [options EXCEPT !.LLMConfig.Temperature = temperature]

WithTopP(options, topP) ==
    IF options.LLMConfig.nil THEN NilDereference(options)
    ELSE [options EXCEPT !.LLMConfig.TopP = topP]

WithFrequencyPenalty(options, frequencyPenalty) ==
    IF options.LLMConfig.nil THEN NilDereference(options)
    ELSE [options EXCEPT !.LLMConfig.FrequencyPenalty = frequencyPenalty]

WithPresencePenalty(options, presencePenalty) ==
    IF options.LLMConfig.nil THEN NilDereference(options)
    ELSE [options EXCEPT !.LLMConfig.PresencePenalty = presencePenalty]

WithStopSequences(options, stopSequences) ==
    IF options.LLMConfig.nil THEN NilDereference(options)
    ELSE [options EXCEPT !.LLMConfig.StopSequences = stopSequences]

WithReasoning(options, reasoning) ==
    LET config == IF options.LLMConfig.nil THEN LLMConfig(0, 0)
                  ELSE options.LLMConfig
    IN  [options EXCEPT !.LLMConfig = [config EXCEPT !.Reasoning = reasoning]]

\* An option as the caller passes it: the option function and its argument.
Option(fn, num, str, seq) == [fn |-> fn, num |-> num, str |-> str, seq |-> seq]

OptTemperature(t) == Option("WithTemperature", t, "", << >>)

OptTopP(p) == Option("WithTopP", p, "", << >>)

OptFrequencyPenalty(p) == Option("WithFrequencyPenalty", p, "", << >>)

OptPresencePenalty(p) == Option("WithPresencePenalty", p, "", << >>)

OptStopSequences(s) == Option("WithStopSequences", 0, "", s)

OptReasoning(r) == Option("WithReasoning", 0, r, << >>)

\* option(params): nothing runs after a panic.
ApplyOption(options, opt) ==
    IF options.panic THEN options
    ELSE CASE opt.fn = "WithTemperature" -> WithTemperature(options, opt.num)
           [] opt.fn = "WithTopP" -> WithTopP(options, opt.num)
           [] opt.fn = "WithFrequencyPenalty" -> WithFrequencyPenalty(options, opt.num)
           [] opt.fn = "WithPresencePenalty" -> WithPresencePenalty(options, opt.num)
           [] opt.fn = "WithStopSequences" -> WithStopSequences(options, opt.seq)
           [] OTHER -> WithReasoning(options, opt.str)

RECURSIVE ApplyOptions(_, _)
ApplyOptions(options, opts) ==
    IF opts = << >> THEN options
    ELSE ApplyOptions(ApplyOption(options, Head(opts)), Tail(opts))

\* Generate applies the options to a configuration with temperature 0.7.
GenerateParams(opts) ==
    ApplyOptions(GenerateOptions(LLMConfig(DefaultTemperature, 0)), opts)

\* GenerateWithTools applies the options to empty GenerateOptions and only
\* then fills in a missing configuration: temperature 0.7, top-p 1.0.
ToolLoopParams(opts) ==
    LET params == ApplyOptions(GenerateOptions(NilLLMConfig), opts)
    IN  IF ~params.panic /\ params.LLMConfig.nil
        THEN [params EXCEPT !.LLMConfig = LLMConfig(DefaultTemperature, DefaultTopP)]
        ELSE params

\* param.Opt: a request field that is omitted, or sent with a value.
Omitted == [set |-> FALSE, value |-> 0]

Float(value) == [set |-> TRUE, value |-> value]

\* openai.ChatCompletionNewParams without its messages.
NewParams(c) ==
    [Model |-> c.Model, Tools |-> << >>, Temperature |-> Omitted, TopP |-> Omitted,
     FrequencyPenalty |-> Omitted, PresencePenalty |-> Omitted, Stop |-> << >>,
     ReasoningEffort |-> "", ParallelToolCalls |-> FALSE]

\* The request of Generate.
GenerateRequest(c, config) ==
    IF config.nil THEN NewParams(c)
    ELSE [NewParams(c) EXCEPT
            !.Temperature = Float(getTemperatureForModel(c, config.Temperature)),
            !.TopP = IF ~isReasoningModel(c.Model) THEN Float(config.TopP) ELSE Omitted,
            !.FrequencyPenalty = Float(config.FrequencyPenalty),
            !.PresencePenalty = Float(config.PresencePenalty),
            !.Stop = config.StopSequences,
            !.ReasoningEffort = IF isReasoningModel(c.Model) THEN config.Reasoning
                                ELSE ""]

\* The request of Chat; params is never nil here.
ChatRequest(c, params) ==
    [NewParams(c) EXCEPT
        !.Temperature = Float(getTemperatureForModel(c, params.Temperature)),
        !.FrequencyPenalty = Float(params.FrequencyPenalty),
        !.PresencePenalty = Float(params.PresencePenalty),
        !.TopP = IF ~isReasoningModel(c.Model) THEN Float(params.TopP) ELSE Omitted,
        !.Stop = params.StopSequences,
        !.ReasoningEffort = IF isReasoningModel(c.Model) THEN params.Reasoning
                            ELSE ""]

\* One parameter of a tool as Parameters() describes it; items is "" when
\* the parameter names no item type.
ParameterSpec(type, items, required) ==
    [Type |-> type, Items |-> items, Required |-> required]

\* The schema of one parameter in a tool definition.
paramSchema(param) ==
    LET paramType == IF param.Type = "integer" THEN "number" ELSE param.Type
    IN  [type |-> paramType,
         items |-> IF paramType = "array"
                   THEN (IF param.Items # "" THEN param.Items ELSE "string")
                   ELSE ""]

\* One tool definition: the required names are kept as a set, the order of
\* a map's keys being unspecified.
toolDef(tool) ==
    [Name |-> tool.Name,
     properties |-> [name \in DOMAIN tool.Parameters |->
                        paramSchema(tool.Parameters[name])],
     required |-> {name \in DOMAIN tool.Parameters : tool.Parameters[name].Required}]

\* The tool definitions, built once before the loop.
openaiTools(tools) == [i \in DOMAIN tools |-> toolDef(tools[i])]

\* The request of one iteration of GenerateWithTools.
ToolLoopRequest_ToolsOnFirstRound(c, config, toolDefs, iteration) ==
    [NewParams(c) EXCEPT
        !.Tools = IF iteration = 0 THEN toolDefs ELSE << >>,
        !.Temperature = Float(getTemperatureForModel(c, config.Temperature)),
        !.FrequencyPenalty = Float(config.FrequencyPenalty),
        !.PresencePenalty = Float(config.PresencePenalty),
        !.TopP = IF ~isReasoningModel(c.Model) THEN Float(config.TopP) ELSE Omitted,
        !.ParallelToolCalls = ~isReasoningModel(c.Model),
        !.Stop = config.StopSequences]

ToolLoopRequest(c, config, toolDefs, iteration) ==
    [NewParams(c) EXCEPT
        !.Tools = toolDefs,
        !.Temperature = Float(getTemperatureForModel(c, config.Temperature)),
        !.FrequencyPenalty = Float(config.FrequencyPenalty),
        !.PresencePenalty = Float(config.PresencePenalty),
        !.TopP = IF ~isReasoningModel(c.Model) THEN Float(config.TopP) ELSE Omitted,
        !.ParallelToolCalls = ~isReasoningModel(c.Model),
        !.Stop = config.StopSequences]

\* The model NewClient sets.
DefaultModel == Gpt \o <<"4", "o", "-">> \o Mini

\* NewClient without WithRetry leaves retryExecutor nil; WithRetry sets it.
DefaultClient == [retryExecutor |-> FALSE, Model |-> DefaultModel]

RetryClient == [retryExecutor |-> TRUE, Model |-> DefaultModel]

\* operation() called once: the answer to its one network call.
Operation(responses) == {<<r>> : r \in responses}

\* retry.Executor.Execute(ctx, operation): the answers to the network calls
\* of one execution.  The operation is run again after each failure until it
\* succeeds or the policy's attempts are used up.
RetryExecute(responses) ==
    {s \in SeqsUpTo(responses, MaxAttempts) :
        /\ Len(s) >= 1
        /\ \A i \in 1..(Len(s) - 1) : s[i].err
        /\ s[Len(s)].err => Len(s) = MaxAttempts}

\* if c.retryExecutor != nil { Execute(ctx, operation) } else { operation() }
VendorCall(c, responses) ==
    IF c.retryExecutor THEN RetryExecute(responses) ELSE Operation(responses)

\* What Generate returns for the vendor's last answer: (text, error), and the
\* vendor error the returned error wraps.
GenerateResult(resp) ==
    IF resp.err
    THEN [text |-> EmptyStr, err |-> "failed to generate text", wraps |-> resp.cause]
    ELSE IF Len(resp.choices) > 0
    THEN [text |-> resp.choices[1].content, err |-> "", wraps |-> ""]
    ELSE [text |-> EmptyStr, err |-> "no response from OpenAI API", wraps |-> ""]

---------------------------------------------------------------------------
(* OpenAI: OpenAIClient.Chat over a list of llm.Message.                   *)

ChatInput(role, content, toolCallID) ==
    [role |-> role, content |-> content, toolCallID |-> toolCallID]

\* The switch on msg.Role: an unknown role becomes a user message.
chatConvert(msg) ==
    CASE msg.role = "system"    -> OpenAISystemMessage(msg.content)
      [] msg.role = "user"      -> OpenAIUserMessage(msg.content)
      [] msg.role = "assistant" -> OpenAIAssistantMessage(msg.content)
      [] msg.role = "tool"      -> OpenAIToolMessage(msg.content, msg.toolCallID)
      [] OTHER                  -> OpenAIUserMessage(msg.content)

ChatMessages(messages) == [i \in 1..Len(messages) |-> chatConvert(messages[i])]

ChatResult(resp) ==
    IF resp.err
    THEN [text |-> EmptyStr, err |-> "failed to create chat completion",
          wraps |-> resp.cause]
    ELSE IF Len(resp.choices) = 0
    THEN [text |-> EmptyStr, err |-> "no completions returned", wraps |-> ""]
    ELSE [text |-> resp.choices[1].content, err |-> "", wraps |-> ""]

---------------------------------------------------------------------------
(* OpenAI: OpenAIClient.GenerateWithTools, one step of its loop at a time: *)
(* the request of a round, then each tool call of the answer.             *)
(* The tuning fields of the request and the parameter schemas of the tool  *)
(* definitions are left out here.                                          *)

DefaultMaxIterations == 10

\* maxIterations: the option, or the default when the option is zero.
EffectiveMaxIterations_NoDefault(maxIterations) == maxIterations

EffectiveMaxIterations(maxIterations) ==
    IF maxIterations = 0 THEN DefaultMaxIterations ELSE maxIterations

\* messages before the loop: the system message, when set, then the built
\* history.
ToolLoopMessages(prompt, params) ==
    (IF params.SystemMessage # EmptyStr
     THEN <<OpenAISystemMessage(params.SystemMessage)>> ELSE << >>)
        \o openaiBuildMessages(prompt, params.Memory)

\* strings.TrimSpace over a text whose white space comes as fragments of
\* its own: a space, a newline, a tab.
WhiteSpace == {" ", "\n", "\t"}

RECURSIVE TrimLeft(_)
TrimLeft(text) ==
    IF text # << >> /\ Head(text) \in WhiteSpace THEN TrimLeft(Tail(text)) ELSE text

RECURSIVE TrimRight(_)
TrimRight(text) ==
    IF text # << >> /\ text[Len(text)] \in WhiteSpace
    THEN TrimRight(SubSeq(text, 1, Len(text) - 1)) ELSE text

TrimSpace_LeftOnly(text) == TrimLeft(text)

TrimSpace(text) == TrimRight(TrimLeft(text))

\* selectedTool != nil: a tool of the given list has the requested name.
ToolFound(tools, toolCall) == \E i \in 1..Len(tools) : tools[i] = toolCall.name

\* What tool.Execute does with the arguments: a result or an error.
ToolOutcomes == {"ok", "err"}

ToolResult == Txt("Sunny")

ToolError == Txt("boom")

\* toolResultContent for one requested call.
ToolResultContent(tools, toolCall, outcome) ==
    IF ~ToolFound(tools, toolCall)
    THEN <<"Error: tool not found: ">> \o Txt(toolCall.name)
    ELSE IF outcome = "err" THEN <<"Error: ">> \o ToolError
    ELSE ToolResult

\* The tool turns one round appends, one per requested call, in order.
ToolTurns(tools, toolCalls, outcomes) ==
    [j \in 1..Len(toolCalls) |->
        OpenAIToolMessage(ToolResultContent(tools, toolCalls[j], outcomes[j]),
                          toolCalls[j].id)]

\* responseMessage.ToParam(): the assistant turn appended to messages.
ResponseParam(message) ==
    ChatMsg("assistant", message.content, "", message.toolCalls)

---------------------------------------------------------------------------
(* Inputs *)

Prompts == {Txt("Hi"), Txt("Continue")}

SystemMessages == {EmptyStr, Txt("You are helpful")}

Temperatures == {2, DefaultTemperature}

VendorResponses ==
    {VendorError, VendorFailure("rate limited"), VendorChoices(<< >>),
     VendorChoices(<<VendorMessage(Txt("Hello!"), << >>)>>)}

Clients == {DefaultClient, RetryClient}

\* Model names on either side of the reasoning prefixes: "o3" alone and
\* "gpt-4o" start with none of them.
Models ==
    {DefaultModel, <<"o", "3", "-">> \o Mini, <<"o", "3">>, Gpt \o <<"5">>,
     Gpt \o <<"4", "o">>, <<"o", "1", "-", "p", "r", "e", "v", "i", "e", "w">>}

ModelClients == {[DefaultClient EXCEPT !.Model = m] : m \in Models}

\* The tuning options of a call: none, a temperature alone, and a full set
\* that starts with WithReasoning.
OptionLists ==
    {<< >>,
     <<OptTemperature(2)>>,
     <<OptReasoning("low"), OptTemperature(2), OptTopP(9), OptFrequencyPenalty(1),
       OptPresencePenalty(1), OptStopSequences(<<"END">>)>>}

\* The parameters handed to Chat.
ChatParams ==
    {LLMConfig(DefaultTemperature, DefaultTopP),
     [LLMConfig(2, 9) EXCEPT !.Reasoning = "low", !.StopSequences = <<"END">>]}

\* The message lists handed to Chat; "function" is a role Chat does not know.
ChatInputs ==
    {<< >>,
     <<ChatInput("system", Txt("You are helpful"), ""), ChatInput("user", Txt("Hi"), "")>>,
     <<ChatInput("user", Txt("Hi"), ""), ChatInput("assistant", Txt("Hello!"), ""),
       ChatInput("tool", Txt("Sunny"), "call_1"), ChatInput("function", Txt("Hi"), "")>>}

\* Serialized arguments: an object text written compactly or with a space
\* after each colon and comma, as in {"location": "NYC"}.
RECURSIVE MemberTokens(_, _)
MemberTokens(ms, spaced) ==
    IF ms = << >> THEN << >>
    ELSE <<StrTok(Head(ms)[1]), Colon>> \o (IF spaced THEN <<Space>> ELSE << >>)
            \o <<Head(ms)[2]>>
            \o (IF Tail(ms) = << >> THEN << >>
                ELSE <<Comma>> \o (IF spaced THEN <<Space>> ELSE << >>))
            \o MemberTokens(Tail(ms), spaced)

ObjectText(ms, spaced) == <<LBrace>> \o MemberTokens(ms, spaced) \o <<RBrace>>

MLocNYC == <<"location", StrTok("NYC")>>
MLocLA  == <<"location", StrTok("LA")>>
MDays   == <<"days", NumTok("3")>>

\* The member lists written into object texts.
MemberLists ==
    {<< >>, <<MLocNYC>>, <<MLocNYC, MDays>>, <<MDays, MLocNYC>>, <<MLocNYC, MLocLA>>}

ObjectTexts ==
    {ObjectText(ms, FALSE) : ms \in MemberLists} \cup {ObjectText(<<MLocNYC>>, TRUE)}

\* Argument strings that are not the text of a JSON object.
TruncatedText == <<LBrace, StrTok("location")>>

NonObjectTexts ==
    { << >>,                                              \* the empty string
      <<NullTok>>,                                        \* null
      TruncatedText,                                      \* {"location"
      <<LBrack, StrTok("NYC"), RBrack>>,                  \* ["NYC"]
      <<StrTok("NYC")>>,                                  \* "NYC"
      <<LBrace, StrTok("location"), Colon, StrTok("NYC"), Comma, RBrace>> }

ArgumentTexts == ObjectTexts \cup NonObjectTexts

\* Calls of one tool with every argument string, and of a second tool with
\* an object text and a text that is none.
RichToolCalls ==
    {ToolCall("call_1", "get_weather", a) : a \in ArgumentTexts}
    \cup {ToolCall("call_2", "search", a) :
              a \in {ObjectText(<<MLocNYC>>, TRUE), TruncatedText}}

Metadatas ==
    {NilMeta, Meta("none", ""), Meta("string", "get_weather"), Meta("other", "")}

\* Every shape of message the data model allows, over small field alphabets.
RichMsgs ==
    {UserMsg(c) : c \in {EmptyStr, Txt("Hi")}}
    \cup {SystemMsg(c) : c \in {EmptyStr, Txt("Old system")}}
    \cup {AssistantMsg(c, tcs) : c \in {EmptyStr, Txt("Hello!")},
                                 tcs \in SeqsUpTo(RichToolCalls, MaxToolCalls)}
    \cup {ToolMsg(c, id, md) : c \in {EmptyStr, Txt("Sunny")},
                               id \in {"", "call_1"}, md \in Metadatas}

TcBad  == ToolCall("call_1", "get_weather", TruncatedText)
TcGood == ToolCall("call_2", "search", ObjectText(<<MLocNYC>>, TRUE))

\* GenerateOptions.MaxIterations as the caller sets it; zero is unset.
MaxIterationsOptions == {0, 1, 2}

\* The tools handed to GenerateWithTools, by name.
Tools == <<"get_weather", "search">>

\* What each tool's Parameters() returns.
ToolParameters(name) ==
    IF name = "get_weather"
    THEN [location |-> ParameterSpec("string", "", TRUE),
          days |-> ParameterSpec("integer", "", FALSE)]
    ELSE [query |-> ParameterSpec("string", "", TRUE),
          tags |-> ParameterSpec("array", "", FALSE),
          ids |-> ParameterSpec("array", "integer", FALSE)]

ToolValues ==
    [i \in DOMAIN Tools |-> [Name |-> Tools[i], Parameters |-> ToolParameters(Tools[i])]]

\* The calls a vendor message may ask for: a tool of the list, and one that
\* is not in it.
CallKnown == ToolCall("call_1", "get_weather", ObjectText(<<MLocNYC>>, FALSE))

CallMissing == ToolCall("call_2", "lookup", ObjectText(<< >>, FALSE))

CallSearch == ToolCall("call_3", "search", ObjectText(<<MLocNYC>>, TRUE))

\* The texts of the vendor's final answers.
FinalTexts ==
    {<<" ", "Sunny in NYC", " ">>, <<"\n", "Sunny", " ", "in NYC", "\t", "\n">>,
     Txt("Sunny in NYC"), <<" ", "\n">>, EmptyStr}

\* The vendor's answers inside the tool loop: a final text, or tool calls.
ToolLoopResponses ==
    {VendorError, VendorFailure("rate limited"), VendorChoices(<< >>),
     VendorChoices(<<VendorMessage(EmptyStr, <<CallKnown, CallSearch>>)>>),
     VendorChoices(<<VendorMessage(Txt("Checking"), <<CallMissing, CallKnown>>)>>)}
    \cup {VendorChoices(<<VendorMessage(t, << >>)>>) : t \in FinalTexts}

\* The vendor's answers after the first MaxRounds rounds.
LateResponses ==
    {VendorError,
     VendorChoices(<<VendorMessage(<<" ", "Sunny in NYC", " ">>, << >>)>>),
     VendorChoices(<<VendorMessage(EmptyStr, <<CallKnown>>)>>)}

\* The messages a caller appends to a conversation.
HistMsgs ==
    {UserMsg(Txt("Hi")), SystemMsg(Txt("Old system"))}
    \cup {AssistantMsg(c, tcs) : c \in {EmptyStr, Txt("Hello!")},
                                 tcs \in {<< >>, <<TcBad, TcGood>>}}
    \cup {ToolMsg(Txt("Sunny"), id, Meta("string", "get_weather")) : id \in {"", "call_1"}}

\* One message alone, or between an earlier and a later user turn.
FocusHistories ==
    {<<m>> : m \in RichMsgs}
    \cup {<<UserMsg(Txt("Hi")), m, UserMsg(Txt("Continue"))>> : m \in RichMsgs}

---------------------------------------------------------------------------
(* State machine *)

\* requests, replies: the message list of each network call and the vendor's
\* answer to it.  rounds: for each round, the network calls made for it and
\* whether they went through the retry executor.  executed: the calls of
\* tool.Execute, in the order made.  pending: the tool calls of the current
\* reply not yet processed.  wraps: the vendor error the returned error wraps.
\* tracing: the arguments of one call on an LLM, the middleware or the
\* client it wraps; the options are the system message, the iteration
\* budget and the tuning options.
LLMCall(method, prompt, tools, sm, mi, opts) ==
    [method |-> method, prompt |-> prompt, tools |-> tools, system |-> sm,
     maxIterations |-> mi, options |-> opts]

\* tracing: no span, the call is not traced.
NoSpan ==
    [name |-> "", open |-> FALSE, received |-> << >>, calls |-> << >>,
     returned |-> FALSE, response |-> EmptyStr, err |-> "", recordedError |-> FALSE]

\* tracing: m.tracer.StartSpan(ctx, name) in a call of the middleware.
StartSpan(name, received) ==
    [NoSpan EXCEPT !.name = name, !.open = TRUE, !.received = <<received>>]

\* tracing: the middleware calls a method of m.llm.
CallWrapped(span, wrappedCall) == [span EXCEPT !.calls = Append(@, wrappedCall)]

\* tracing: the wrapped call has returned (response, err); the middleware
\* records an error on the span, returns the pair and the span ends.
TracedReturn_WrapError(span, response, err) ==
    [span EXCEPT !.open = FALSE, !.returned = TRUE, !.response = response,
                 !.err = IF err = "" THEN "" ELSE "traced call failed",
                 !.recordedError = err # ""]

TracedReturn(span, response, err) ==
    [span EXCEPT !.open = FALSE, !.returned = TRUE, !.response = response,
                 !.err = err, !.recordedError = err # ""]

\* tracing: the wrapped call panicked; the deferred span.End() runs and
\* nothing is returned.
TracedPanic(span) == [span EXCEPT !.open = FALSE]

\* tracing: the assertion that m.llm has a GenerateWithTools method; every
\* interfaces.LLM declares it.
HasGenerateWithTools(llm) == TRUE

Idle ==
    [op |-> "idle", prompt |-> EmptyStr, system |-> EmptyStr, temperature |-> 0,
     out |-> << >>, requests |-> << >>, text |-> EmptyStr, err |-> "",
     pc |-> "done", iteration |-> 0, maxIterations |-> 0, messages |-> << >>,
     maxIterationsOption |-> 0,
     replies |-> << >>, rounds |-> << >>, executed |-> << >>, pending |-> << >>,
     wraps |-> "",
     options |-> << >>, config |-> NilLLMConfig, tools |-> << >>, sent |-> << >>,
     store |-> NilMemory, memoryCalls |-> << >>, span |-> NoSpan]

Round(attempts, viaExecutor) == [attempts |-> attempts, viaExecutor |-> viaExecutor]

\* One call of tool.Execute(ctx, arguments) in round number round.
Execution(round, toolCall, outcome) ==
    [round |-> round, id |-> toolCall.id, name |-> toolCall.name,
     arguments |-> toolCall.arguments, outcome |-> outcome]

\* GenerateWithTools after a request that failed: it returns the wrapped error.
FailedRound_NextIteration(sent, resp) == [sent EXCEPT !.iteration = @ + 1]

FailedRound(sent, resp) ==
    [sent EXCEPT !.pc = "done", !.err = "failed to create chat completion",
                 !.wraps = resp.cause]

\* GenerateWithTools after an answer without choices.
NoChoicesRound_EmptyAnswer(sent) ==
    [sent EXCEPT !.pc = "done",
                 !.messages = Append(@, OpenAIAssistantMessage(EmptyStr))]

NoChoicesRound(sent) ==
    [sent EXCEPT !.pc = "done", !.err = "no completions returned"]

\* GenerateWithTools after an answer with a choice: its message is appended;
\* without tool calls the call returns the trimmed text, with tool calls the
\* loop over them starts.
AnsweredRound(sent, responseMessage) ==
    LET appended == Append(sent.messages, ResponseParam(responseMessage))
    IN  IF Len(responseMessage.toolCalls) = 0
        THEN [sent EXCEPT !.pc = "done", !.messages = appended,
                          !.text = TrimSpace(responseMessage.content)]
        ELSE [sent EXCEPT !.pc = "tools", !.messages = appended,
                          !.pending = responseMessage.toolCalls]

\* The tool turn of one call is appended; after the last call of the reply
\* the iteration is over.
AppendToolTurn_KeyedByName(c, toolCall, content) ==
    LET rest == Tail(c.pending)
    IN  [c EXCEPT !.messages = Append(@, OpenAIToolMessage(content, toolCall.name)),
                  !.pending = rest,
                  !.pc = IF rest = << >> THEN "loop" ELSE "tools",
                  !.iteration = IF rest = << >> THEN @ + 1 ELSE @]

AppendToolTurn_SameIteration(c, toolCall, content) ==
    LET rest == Tail(c.pending)
    IN  [c EXCEPT !.messages = Append(@, OpenAIToolMessage(content, toolCall.id)),
                  !.pending = rest,
                  !.pc = IF rest = << >> THEN "loop" ELSE "tools"]

AppendToolTurn(c, toolCall, content) ==
    LET rest == Tail(c.pending)
    IN  [c EXCEPT !.messages = Append(@, OpenAIToolMessage(content, toolCall.id)),
                  !.pending = rest,
                  !.pc = IF rest = << >> THEN "loop" ELSE "tools",
                  !.iteration = IF rest = << >> THEN @ + 1 ELSE @]

\* One pass of the loop over responseMessage.ToolCalls: the tool is looked
\* up and, when found, executed.
ProcessToolCall_FailOnMissing(c, toolCall, outcome) ==
    IF ~ToolFound(Tools, toolCall)
    THEN [c EXCEPT !.pc = "done", !.err = "tool not found"]
    ELSE AppendToolTurn([c EXCEPT !.executed =
                            Append(@, Execution(c.iteration + 1, toolCall, outcome))],
                        toolCall, ToolResultContent(Tools, toolCall, outcome))

ProcessToolCall_PropagateError(c, toolCall, outcome) ==
    IF ToolFound(Tools, toolCall) /\ outcome = "err"
    THEN [c EXCEPT !.pc = "done", !.err = "tool execution failed",
                   !.executed = Append(@, Execution(c.iteration + 1, toolCall, outcome))]
    ELSE AppendToolTurn(IF ToolFound(Tools, toolCall)
                        THEN [c EXCEPT !.executed =
                                 Append(@, Execution(c.iteration + 1, toolCall, outcome))]
                        ELSE c,
                        toolCall, ToolResultContent(Tools, toolCall, outcome))

ProcessToolCall(c, toolCall, outcome) ==
    AppendToolTurn(IF ToolFound(Tools, toolCall)
                   THEN [c EXCEPT !.executed =
                            Append(@, Execution(c.iteration + 1, toolCall, outcome))]
                   ELSE c,
                   toolCall, ToolResultContent(Tools, toolCall, outcome))

\* interfaces.GenerateOptions: the system message, the memory handle and a
\* tuning parameter (LLMConfig.Temperature, in tenths).
Params(sm, t) == [SystemMessage |-> sm, Memory |-> mem, Temperature |-> t]

Init ==
    /\ mem \in {NilMemory, [kind |-> "ok", msgs |-> << >>]}
    /\ call = Idle
    /\ client = DefaultClient

\* The caller appends a turn to its Memory Store.
AddMessage(m) ==
    /\ call = Idle
    /\ mem.kind = "ok"
    /\ Len(mem.msgs) < MaxMem
    /\ mem' = [mem EXCEPT !.msgs = Append(@, m)]
    /\ UNCHANGED <<call, client>>

\* The store becomes unavailable: GetMessages returns an error.
StoreFails ==
    /\ call = Idle
    /\ mem.kind = "ok"
    /\ mem' = [mem EXCEPT !.kind = "err"]
    /\ UNCHANGED <<call, client>>

StoreRecovers ==
    /\ call = Idle
    /\ mem.kind = "err"
    /\ mem' = [mem EXCEPT !.kind = "ok"]
    /\ UNCHANGED <<call, client>>

\* gemini: builder.buildContents(ctx, prompt, params)
CallBuildContents ==
    /\ call = Idle
    /\ \E prompt \in Prompts, sm \in SystemMessages, t \in Temperatures :
          call' = [Idle EXCEPT !.op = "buildContents", !.prompt = prompt,
                               !.system = sm, !.temperature = t,
                               !.out = buildContents(prompt, Params(sm, t))]
    /\ UNCHANGED <<mem, client>>

\* azureopenai: builder.buildMessages(ctx, prompt, memory)
CallBuildMessages ==
    /\ call = Idle
    /\ \E prompt \in Prompts :
          call' = [Idle EXCEPT !.op = "buildMessages", !.prompt = prompt,
                               !.store = mem,
                               !.memoryCalls = buildMessagesCalls(mem),
                               !.out = buildMessages(prompt, mem)]
    /\ mem' = StoreAfter(mem, buildMessagesCalls(mem))
    /\ UNCHANGED client

\* openai: client.Generate(ctx, prompt, options...), the options being the
\* system message and the tuning options, when the vendor gives answers.
Generate(c, prompt, sm, opts, answers) ==
    LET params == GenerateParams(opts)
        messages == GenerateMessages(prompt, Params(sm, DefaultTemperature))
        req == GenerateRequest(c, params.LLMConfig)
        result == GenerateResult(answers[Len(answers)])
    IN  [Idle EXCEPT !.op = "Generate", !.prompt = prompt,
                     !.system = sm, !.temperature = DefaultTemperature,
                     !.options = opts, !.config = params.LLMConfig,
                     !.out = messages,
                     !.requests = [i \in 1..Len(answers) |-> messages],
                     !.sent = [i \in 1..Len(answers) |-> req],
                     !.store = mem,
                     !.memoryCalls = openaiBuildMessagesCalls(mem),
                     !.replies = answers,
                     !.rounds = <<Round(Len(answers), c.retryExecutor)>>,
                     !.text = result.text, !.err = result.err,
                     !.wraps = result.wraps]

CallGenerate ==
    /\ call = Idle
    /\ \E prompt \in Prompts, sm \in SystemMessages, opts \in OptionLists,
          answers \in VendorCall(client, VendorResponses) :
          LET next == Generate(client, prompt, sm, opts, answers)
          IN  /\ call' = next
              /\ mem' = StoreAfter(mem, next.memoryCalls)
    /\ UNCHANGED client

\* openai: client.Chat(ctx, messages, params)
CallChat ==
    /\ call = Idle
    /\ \E input \in ChatInputs, params \in ChatParams,
          answers \in VendorCall(client, VendorResponses) :
          LET chatMessages == ChatMessages(input)
              req == ChatRequest(client, params)
              result == ChatResult(answers[Len(answers)])
          IN  call' = [Idle EXCEPT !.op = "Chat",
                                   !.config = params,
                                   !.out = chatMessages,
                                   !.requests = [i \in 1..Len(answers) |-> chatMessages],
                                   !.sent = [i \in 1..Len(answers) |-> req],
                                   !.replies = answers,
                                   !.rounds = <<Round(Len(answers), client.retryExecutor)>>,
                                   !.text = result.text, !.err = result.err,
                                   !.wraps = result.wraps]
    /\ UNCHANGED <<mem, client>>

\* openai: client.GenerateWithTools(ctx, prompt, tools, options...), up to
\* the loop; the options are the system message, the iteration budget and
\* the tuning options.
GenerateWithTools(c, prompt, tools, sm, mi, opts) ==
    LET params == ToolLoopParams(opts)
        messages == ToolLoopMessages(prompt, Params(sm, DefaultTemperature))
        entered == [Idle EXCEPT !.op = "GenerateWithTools", !.prompt = prompt,
                                !.system = sm, !.temperature = DefaultTemperature,
                                !.options = opts, !.maxIterationsOption = mi,
                                !.store = mem]
    IN  IF params.panic THEN [entered EXCEPT !.pc = "panic"]
        ELSE [entered EXCEPT
                 !.config = params.LLMConfig,
                 !.maxIterations = EffectiveMaxIterations(mi),
                 !.tools = openaiTools(tools),
                 !.memoryCalls = openaiBuildMessagesCalls(mem),
                 !.out = messages, !.messages = messages,
                 !.pc = "loop"]

CallGenerateWithTools ==
    /\ call = Idle
    /\ \E prompt \in Prompts, sm \in SystemMessages, mi \in MaxIterationsOptions,
          opts \in OptionLists :
          LET next == GenerateWithTools(client, prompt, ToolValues, sm, mi, opts)
          IN  /\ call' = next
              /\ mem' = StoreAfter(mem, next.memoryCalls)
    /\ UNCHANGED client

\* tracing: TracedLLM.Generate(ctx, prompt, options...) when it is called
\* with the arguments received.
TracedGenerate(c, received, prompt, sm, opts, answers) ==
    LET span == StartSpan("llm.generate", received)
        inner == Generate(c, prompt, sm, opts, answers)
        called == CallWrapped(span, LLMCall("Generate", prompt, << >>, sm, 0, opts))
    IN  [inner EXCEPT !.span = TracedReturn(called, inner.text, inner.err)]

CallTracedGenerate ==
    /\ call = Idle
    /\ \E prompt \in Prompts, sm \in SystemMessages, opts \in OptionLists,
          answers \in VendorCall(client, VendorResponses) :
          LET received == LLMCall("Generate", prompt, << >>, sm, 0, opts)
              next == TracedGenerate(client, received, prompt, sm, opts, answers)
          IN  /\ call' = next
              /\ mem' = StoreAfter(mem, next.memoryCalls)
    /\ UNCHANGED client

\* tracing: TracedLLM.GenerateWithTools(ctx, prompt, tools, options...) up
\* to the wrapped client's loop; without a GenerateWithTools method on the
\* wrapped client it falls back to the middleware's Generate.
TracedGenerateWithTools(c, prompt, tools, sm, mi, opts, answers) ==
    LET received == LLMCall("GenerateWithTools", prompt, tools, sm, mi, opts)
    IN  IF HasGenerateWithTools(c)
        THEN LET span == StartSpan("llm.generate_with_tools", received)
                 inner == GenerateWithTools(c, prompt, tools, sm, mi, opts)
                 called == CallWrapped(span, LLMCall("GenerateWithTools", prompt,
                                                     tools, sm, mi, opts))
             IN  [inner EXCEPT !.span = IF inner.pc = "panic" THEN TracedPanic(called)
                                        ELSE called]
        ELSE TracedGenerate(c, received, prompt, sm, opts, answers)

CallTracedGenerateWithTools ==
    /\ call = Idle
    /\ \E prompt \in Prompts, sm \in SystemMessages, mi \in MaxIterationsOptions,
          opts \in OptionLists, answers \in VendorCall(client, VendorResponses) :
          LET next == TracedGenerateWithTools(client, prompt, ToolValues, sm, mi,
                                              opts, answers)
          IN  /\ call' = next
              /\ mem' = StoreAfter(mem, next.memoryCalls)
    /\ UNCHANGED client

\* tracing: the wrapped GenerateWithTools has returned to the middleware.
TracedEnd ==
    /\ call.span.open
    /\ call.pc = "done"
    /\ call' = [call EXCEPT !.span = TracedReturn(@, call.text, call.err)]
    /\ UNCHANGED <<mem, client>>

\* One iteration of the loop up to its tool calls: the request, made
\* directly on the chat service, and the vendor's answer.
ToolLoopRound ==
    /\ call.op = "GenerateWithTools"
    /\ call.pc = "loop"
    /\ call.iteration < call.maxIterations
    /\ \E resp \in (IF call.iteration < MaxRounds
                    THEN ToolLoopResponses ELSE LateResponses) :
          LET req == ToolLoopRequest(client, call.config, call.tools, call.iteration)
              sent == [call EXCEPT !.requests = Append(@, call.messages),
                                   !.sent = Append(@, req),
                                   !.replies = Append(@, resp),
                                   !.rounds = Append(@, Round(1, FALSE))]
              calls == IF resp.err \/ Len(resp.choices) = 0 THEN << >>
                       ELSE AppendMemoryCalls(ResponseParam(resp.choices[1]))
              next == IF resp.err THEN FailedRound(sent, resp)
                      ELSE IF Len(resp.choices) = 0 THEN NoChoicesRound(sent)
                      ELSE AnsweredRound(sent, resp.choices[1])
          IN  /\ call' = [next EXCEPT !.memoryCalls = @ \o calls]
              /\ mem' = StoreAfter(mem, calls)
    /\ UNCHANGED client

\* One pass of the loop over responseMessage.ToolCalls: the tool is looked
\* up, executed when found, and its tool turn appended.  After the last call
\* the iteration is over.
ToolLoopExecute ==
    /\ call.op = "GenerateWithTools"
    /\ call.pc = "tools"
    /\ LET toolCall == Head(call.pending)
       IN  \E outcome \in ToolOutcomes :
              /\ call.iteration >= MaxRounds => outcome = "ok"
              /\ ~ToolFound(Tools, toolCall) => outcome = "ok"
              /\ LET next == ProcessToolCall(call, toolCall, outcome)
                     calls == IF Len(next.messages) > Len(call.messages)
                              THEN AppendMemoryCalls(next.messages[Len(next.messages)])
                              ELSE << >>
                 IN  /\ call' = [next EXCEPT !.memoryCalls = @ \o calls]
                     /\ mem' = StoreAfter(mem, calls)
    /\ UNCHANGED client

\* The loop ends without a final answer.
ToolLoopExhausted ==
    /\ call.op = "GenerateWithTools"
    /\ call.pc = "loop"
    /\ call.iteration >= call.maxIterations
    /\ call' = [call EXCEPT !.pc = "done",
                    !.err = "max iterations reached without a final answer"]
    /\ UNCHANGED <<mem, client>>

\* The call's result has been consumed.
Return ==
    /\ call # Idle
    /\ call.pc = "done"
    /\ ~call.span.open
    /\ call' = Idle
    /\ UNCHANGED <<mem, client>>

Next ==
    \/ \E m \in HistMsgs : AddMessage(m)
    \/ StoreFails
    \/ StoreRecovers
    \/ CallBuildContents
    \/ CallBuildMessages
    \/ CallGenerate
    \/ Return

Spec == Init /\ [][Next]_vars

\* The builders applied to every shape of message.
InitMsg ==
    /\ mem \in {[kind |-> "ok", msgs |-> h] : h \in FocusHistories}
    /\ call = Idle
    /\ client = DefaultClient

NextMsg ==
    \/ CallBuildContents
    \/ CallBuildMessages
    \/ Return

MsgSpec == InitMsg /\ [][NextMsg]_vars

\* The callers of the builders over a fixed store: nil, readable or failing.
ClientHistories ==
    {<< >>, <<UserMsg(Txt("Hi"))>>,
     <<ToolMsg(Txt("Sunny"), "call_1", Meta("string", "get_weather"))>>}
    \cup {<<UserMsg(Txt("Hi")), AssistantMsg(Txt("Hello"), <<TcGood>>),
            ToolMsg(Txt("Sunny"), "call_2", Meta("string", "search")),
            UserMsg(Txt("Continue"))>>}

InitClient ==
    /\ mem \in {NilMemory}
                \cup {[kind |-> k, msgs |-> h] : k \in {"ok", "err"},
                                                h \in ClientHistories}
    /\ call = Idle
    /\ client = DefaultClient

NextClient ==
    \/ CallBuildContents
    \/ CallBuildMessages
    \/ CallGenerate
    \/ CallGenerateWithTools
    \/ ToolLoopRound
    \/ ToolLoopExecute
    \/ ToolLoopExhausted
    \/ Return

ClientSpec == InitClient /\ [][NextClient]_vars

\* The client's entry points over a store that is absent or holds a short
\* conversation, on a client built with or without WithRetry.
InitLoop ==
    /\ mem \in {NilMemory,
                 [kind |-> "ok",
                  msgs |-> <<UserMsg(Txt("Hi")), AssistantMsg(Txt("Hello!"), << >>),
                             UserMsg(Txt("Continue"))>>]}
    /\ call = Idle
    /\ client \in Clients

NextLoop ==
    \/ CallGenerate
    \/ CallChat
    \/ CallGenerateWithTools
    \/ ToolLoopRound
    \/ ToolLoopExecute
    \/ ToolLoopExhausted
    \/ Return

LoopSpec == InitLoop /\ [][NextLoop]_vars

\* The client's entry points on clients of several models, without a store.
InitTune ==
    /\ mem = NilMemory
    /\ call = Idle
    /\ client \in ModelClients

NextTune ==
    \/ CallGenerate
    \/ CallChat
    \/ CallGenerateWithTools
    \/ ToolLoopRound
    \/ ToolLoopExecute
    \/ ToolLoopExhausted
    \/ Return

TuneSpec == InitTune /\ [][NextTune]_vars

\* GenerateWithTools alone, every vendor call and every tool execution
\* returning: a step of the loop that can be taken is eventually taken.
InitFair ==
    /\ mem = NilMemory
    /\ call = Idle
    /\ client = DefaultClient

NextFair ==
    \/ CallGenerateWithTools
    \/ ToolLoopRound
    \/ ToolLoopExecute
    \/ ToolLoopExhausted
    \/ Return

FairSpec ==
    /\ InitFair
    /\ [][NextFair]_vars
    /\ WF_vars(ToolLoopRound)
    /\ WF_vars(ToolLoopExecute)
    /\ WF_vars(ToolLoopExhausted)

InitTraced ==
    /\ mem = NilMemory
    /\ call = Idle
    /\ client \in {DefaultClient, RetryClient}

NextTraced ==
    \/ CallTracedGenerate
    \/ CallTracedGenerateWithTools
    \/ ToolLoopRound
    \/ ToolLoopExecute
    \/ ToolLoopExhausted
    \/ TracedEnd
    \/ Return

TracedSpec == InitTraced /\ [][NextTraced]_vars

---------------------------------------------------------------------------
(* Properties *)

EmptyOkMemory == [kind |-> "ok", msgs |-> << >>]

\* The params of the recorded buildContents call, over another memory.
CallParams(memory) ==
    [SystemMessage |-> call.system, Memory |-> memory, Temperature |-> call.temperature]

\* An assistant message with empty content and no tool calls.
EmptyAssistant(m) ==
    m.role = RoleAssistant /\ m.content = EmptyStr /\ m.toolCalls = << >>

\* A tool message with an empty toolCallID.
UncorrelatedTool(m) == m.role = RoleTool /\ m.toolCallID = ""

Unrepresentable(m) == EmptyAssistant(m) \/ UncorrelatedTool(m)

\* The vendor's name for a role.
GeminiRole(role) == IF role = RoleAssistant THEN "model" ELSE "user"

\* C1: for every prompt and every GenerateOptions with a nil Memory, whatever
\* the system message and the tuning parameter, buildContents and
\* buildMessages return exactly one entry, a user-role turn whose text is the
\* current prompt.
C1_NilMemoryIsOnePromptTurn ==
    mem.kind = "nil" =>
        /\ call.op = "buildContents" =>
              /\ Len(call.out) = 1
              /\ call.out[1].role = "user"
              /\ call.out[1].parts = <<TextPart(call.prompt)>>
        /\ call.op = "buildMessages" =>
              /\ Len(call.out) = 1
              /\ call.out[1] = OpenAIUserMessage(call.prompt)

C1_Witness ==
    /\ mem.kind = "nil"
    /\ call.op = "buildContents"
    /\ call.system # EmptyStr
    /\ call.temperature # DefaultTemperature
    /\ call.out = <<Content("user", <<TextPart(Txt("Continue"))>>)>>

\* C2: when GetMessages succeeds with N messages, none of them an assistant
\* message with empty content and no tool calls or a tool message with an
\* empty toolCallID, the built history has exactly N entries and its i-th
\* entry is made from the i-th message, with that message's role in the
\* vendor's naming.
C2_LengthAndOrderPreserved ==
    (/\ call.op \in {"buildContents", "buildMessages"}
     /\ mem.kind = "ok"
     /\ \A i \in 1..Len(mem.msgs) : ~Unrepresentable(mem.msgs[i]))
    => /\ Len(call.out) = Len(mem.msgs)
       /\ \A i \in 1..Len(mem.msgs) :
             call.out[i].role = IF call.op = "buildContents"
                                THEN GeminiRole(mem.msgs[i].role)
                                ELSE mem.msgs[i].role

\* C2 for the Gemini builder alone: N representable messages give N
\* contents, the i-th being the conversion of the i-th message.
C2_GeminiLengthAndOrderPreserved ==
    (/\ call.op = "buildContents"
     /\ mem.kind = "ok"
     /\ \A i \in 1..Len(mem.msgs) : ~Unrepresentable(mem.msgs[i]))
    => /\ Len(call.out) = Len(mem.msgs)
       /\ \A i \in 1..Len(mem.msgs) :
             /\ call.out[i].role = GeminiRole(mem.msgs[i].role)
             /\ <<call.out[i]>> = geminiConvert(mem.msgs[i])

C2_GeminiWitness ==
    /\ call.op = "buildContents"
    /\ mem.kind = "ok"
    /\ Len(mem.msgs) = 3
    /\ Len(call.out) = 3
    /\ <<call.out[1].role, call.out[2].role, call.out[3].role>> = <<"user", "model", "user">>

\* In the one-message histories and the three-message ones, the message the
\* properties are about.
FocusIdx == IF Len(mem.msgs) = 1 THEN 1 ELSE 2

Focus == mem.msgs[FocusIdx]

\* C3: the Azure OpenAI builder turns every assistant message with at least
\* one tool call into exactly one assistant turn that carries its text and
\* one tool-call entry per ToolCall, in order; with empty content it is still
\* emitted.
C3_AzureCarriesToolCalls ==
    (/\ call.op = "buildMessages"
     /\ Len(mem.msgs) = 1
     /\ Focus.role = RoleAssistant
     /\ Len(Focus.toolCalls) >= 1)
    => /\ Len(call.out) = 1
       /\ call.out[1].role = "assistant"
       /\ call.out[1].content = Focus.content
       /\ Len(call.out[1].toolCalls) = Len(Focus.toolCalls)
       /\ \A j \in 1..Len(Focus.toolCalls) :
             /\ call.out[1].toolCalls[j].id = Focus.toolCalls[j].id
             /\ call.out[1].toolCalls[j].name = Focus.toolCalls[j].name

\* C4: the Gemini builder turns every assistant message with k >= 1 tool
\* calls into exactly one model-role content whose parts are one text part
\* first if and only if the content is non-empty, then exactly k function-call
\* parts, the j-th named after the j-th ToolCall.
C4_GeminiAssistantParts ==
    (/\ call.op = "buildContents"
     /\ Focus.role = RoleAssistant
     /\ Len(Focus.toolCalls) >= 1)
    => LET k == Len(Focus.toolCalls)
           t == IF Focus.content # EmptyStr THEN 1 ELSE 0
       IN  /\ Len(call.out) = Len(mem.msgs)
           /\ call.out[FocusIdx].role = "model"
           /\ Len(call.out[FocusIdx].parts) = t + k
           /\ t = 1 => call.out[FocusIdx].parts[1] = TextPart(Focus.content)
           /\ \A j \in 1..k :
                 /\ call.out[FocusIdx].parts[t + j].kind = "functionCall"
                 /\ call.out[FocusIdx].parts[t + j].name = Focus.toolCalls[j].name

C4_Witness ==
    /\ call.op = "buildContents"
    /\ Len(mem.msgs) = 1
    /\ Focus.role = RoleAssistant
    /\ Focus.content = Txt("Hello!")
    /\ Len(Focus.toolCalls) = 2
    /\ Focus.toolCalls[1].name = "search"
    /\ Focus.toolCalls[2].name = "get_weather"
    /\ Len(call.out[1].parts) = 3
    /\ call.out[1].parts[2].name = "search"
    /\ call.out[1].parts[3].name = "get_weather"

\* C5: in both builders a tool message with an empty toolCallID, whatever its
\* content and metadata, produces no entry, and the messages before and after
\* it are converted as they are without it.
C5_UncorrelatedToolDropped ==
    mem.kind = "ok" =>
        LET kept == SelectSeq(mem.msgs, LAMBDA m : ~UncorrelatedTool(m))
        IN  /\ call.op = "buildContents" =>
                  /\ call.out = geminiConvertAll(kept)
                  /\ Len(call.out) <= Len(kept)
                  /\ \A i \in 1..Len(call.out) :
                        call.out[i].parts[1].kind = "functionResponse" =>
                            \E n \in 1..Len(mem.msgs) :
                                /\ mem.msgs[n].role = RoleTool
                                /\ mem.msgs[n].toolCallID # ""
            /\ call.op = "buildMessages" =>
                  /\ call.out = azureConvertAll(kept)
                  /\ Len(call.out) <= Len(kept)
                  /\ \A i \in 1..Len(call.out) :
                        call.out[i].role = "tool" => call.out[i].toolCallID # ""

C5_Witness ==
    /\ call.op = "buildContents"
    /\ mem.kind = "ok"
    /\ Len(mem.msgs) = 3
    /\ UncorrelatedTool(mem.msgs[2])
    /\ mem.msgs[2].content # EmptyStr
    /\ mem.msgs[2].metadata = Meta("string", "get_weather")
    /\ call.out = <<Content("user", <<TextPart(Txt("Hi"))>>),
                    Content("user", <<TextPart(Txt("Continue"))>>)>>

\* C6: in both builders an assistant message with empty content and no tool
\* calls produces no entry, and the messages before and after it are
\* converted, in order, as they are without it.
C6_EmptyAssistantDropped ==
    mem.kind = "ok" =>
        LET kept == SelectSeq(mem.msgs, LAMBDA m : ~EmptyAssistant(m))
        IN  /\ call.op = "buildContents" =>
                  /\ call.out = geminiConvertAll(kept)
                  /\ Len(call.out) <= Len(kept)
                  /\ \A i \in 1..Len(call.out) : call.out[i].parts # << >>
            /\ call.op = "buildMessages" =>
                  /\ call.out = azureConvertAll(kept)
                  /\ Len(call.out) <= Len(kept)
                  /\ \A i \in 1..Len(call.out) :
                        call.out[i].role = "assistant" => call.out[i].content # EmptyStr

C6_Witness ==
    /\ call.op = "buildContents"
    /\ mem.kind = "ok"
    /\ Len(mem.msgs) = 3
    /\ mem.msgs[1] = UserMsg(Txt("Hi"))
    /\ EmptyAssistant(mem.msgs[2])
    /\ mem.msgs[3].role = RoleSystem
    /\ Len(call.out) = 2
    /\ call.out[2].parts = <<TextPart(SystemPrefixed(mem.msgs[3].content))>>

\* The request of a call whose history is empty: the system message alone,
\* when there is one.
SystemAlone ==
    IF call.system # EmptyStr THEN <<OpenAISystemMessage(call.system)>> ELSE << >>

\* C7: when GetMessages of a non-nil Memory fails, the builder returns what
\* it returns for a memory of zero messages, the empty list with no entry for
\* the prompt, and the caller goes on to send its request: Generate sends its
\* one request, and GenerateWithTools never returns without having sent its
\* first one, each made of the system message alone when there is one.  A
\* GenerateWithTools call that panics while applying its options never calls
\* the builder.
C7_RetrievalErrorIsEmptyHistory ==
    mem.kind = "err" =>
        /\ call.op = "buildContents" =>
              /\ call.out = << >>
              /\ call.out = buildContents(call.prompt, CallParams(EmptyOkMemory))
        /\ call.op = "buildMessages" =>
              /\ call.out = << >>
              /\ call.out = buildMessages(call.prompt, EmptyOkMemory)
        /\ call.op = "Generate" =>
              /\ Len(call.requests) = 1
              /\ call.requests[1] = SystemAlone
              /\ call.requests[1] =
                    GenerateMessages(call.prompt, CallParams(EmptyOkMemory))
        /\ (call.op = "GenerateWithTools" /\ call.pc # "panic") =>
              /\ call.out = SystemAlone
              /\ call.out = ToolLoopMessages(call.prompt, CallParams(EmptyOkMemory))
              /\ call.pc = "done" => Len(call.requests) >= 1
              /\ Len(call.requests) >= 1 => call.requests[1] = SystemAlone
              /\ Len(call.requests) = 0 => ENABLED ToolLoopRound

C7_Witness ==
    /\ mem.kind = "err"
    /\ Len(mem.msgs) = 4
    /\ call.op = "GenerateWithTools"
    /\ call.system # EmptyStr
    /\ call.pc = "done"
    /\ Len(call.requests) = 2
    /\ call.requests[1] = <<OpenAISystemMessage(call.system)>>
    /\ call.err = ""
    /\ call.text = Txt("Sunny in NYC")

\* C8: with a Memory supplied the builder never appends the current prompt:
\* the built history is the one built for any other prompt, and it carries
\* the prompt only if a memory message does.
C8_PromptNeverAppended ==
    mem.kind # "nil" =>
        /\ call.op = "buildContents" =>
              /\ \A p \in Prompts : call.out = buildContents(p, CallParams(mem))
              /\ (\E i \in 1..Len(call.out) :
                      \E j \in 1..Len(call.out[i].parts) :
                          call.out[i].parts[j].text = call.prompt)
                   => \E n \in 1..Len(mem.msgs) : mem.msgs[n].content = call.prompt
        /\ call.op = "buildMessages" =>
              /\ \A p \in Prompts : call.out = buildMessages(p, mem)
              /\ (\E i \in 1..Len(call.out) : call.out[i].content = call.prompt)
                   => \E n \in 1..Len(mem.msgs) : mem.msgs[n].content = call.prompt

C8_Witness ==
    /\ mem.kind = "ok"
    /\ call.op = "buildContents"
    /\ call.prompt = Txt("Continue")
    /\ Len(mem.msgs) = 2
    /\ Len(call.out) = 2
    /\ \A n \in 1..Len(mem.msgs) : mem.msgs[n].content # call.prompt

\* Whether the serialized arguments are one of the JSON object texts.
IsObjectArguments(arguments) == arguments \in ObjectTexts

\* The messages with every argument string that is no JSON object replaced
\* by the text {}.
WithEmptyObjects(msgs) ==
    [i \in DOMAIN msgs |->
        [msgs[i] EXCEPT !.toolCalls =
            [j \in DOMAIN @ |->
                IF IsObjectArguments(@[j].arguments) THEN @[j]
                ELSE [@[j] EXCEPT !.arguments = ObjectText(<< >>, FALSE)]]]]

\* The structured arguments as key-value mappings: a nil map has no key.
KeyValues(out) ==
    [i \in DOMAIN out |->
        [out[i] EXCEPT !.parts =
            [j \in DOMAIN @ |-> [@[j] EXCEPT !.args = @.kv]]]]

\* C9: in the Gemini builder a ToolCall whose arguments cannot be parsed as a
\* JSON object still gets its function-call part, with no key in its
\* structured arguments; the assistant turn, its other tool calls and the
\* rest of the history are built as they are when that argument string is {}.
C9_UnparsableArgumentsBecomeEmpty ==
    (call.op = "buildContents" /\ mem.kind = "ok") =>
        /\ KeyValues(call.out) =
              KeyValues(buildContents(call.prompt,
                                      CallParams([mem EXCEPT !.msgs = WithEmptyObjects(@)])))
        /\ (Focus.role = RoleAssistant /\ Len(Focus.toolCalls) >= 1) =>
              LET t == IF Focus.content # EmptyStr THEN 1 ELSE 0
              IN  /\ Len(call.out) = Len(mem.msgs)
                  /\ Len(call.out[FocusIdx].parts) = t + Len(Focus.toolCalls)
                  /\ \A j \in 1..Len(Focus.toolCalls) :
                        ~IsObjectArguments(Focus.toolCalls[j].arguments) =>
                            /\ call.out[FocusIdx].parts[t + j].kind = "functionCall"
                            /\ call.out[FocusIdx].parts[t + j].name = Focus.toolCalls[j].name
                            /\ DOMAIN call.out[FocusIdx].parts[t + j].args.kv = {}

C9_Witness ==
    /\ call.op = "buildContents"
    /\ Len(mem.msgs) = 3
    /\ Focus.role = RoleAssistant
    /\ Len(Focus.toolCalls) = 2
    /\ Focus.toolCalls[1].arguments = TruncatedText
    /\ Focus.toolCalls[2].arguments = ObjectText(<<MLocNYC>>, TRUE)
    /\ Len(call.out) = 3
    /\ Len(call.out[2].parts) = 2
    /\ call.out[2].parts[1].args = MapArgs(EmptyMap)
    /\ DOMAIN call.out[2].parts[2].args.kv = {"location"}

\* The object a member list denotes.
Denoted(ms) ==
    CASE ms = << >>                -> EmptyMap
      [] ms = <<MLocNYC>>          -> ("location" :> StrTok("NYC"))
      [] ms = <<MLocNYC, MDays>>   -> ("location" :> StrTok("NYC")) @@ ("days" :> NumTok("3"))
      [] ms = <<MDays, MLocNYC>>   -> ("location" :> StrTok("NYC")) @@ ("days" :> NumTok("3"))
      [] ms = <<MLocNYC, MLocLA>>  -> ("location" :> StrTok("LA"))

\* C10: in the Gemini builder, for every ToolCall whose arguments are the
\* text of a JSON object, the structured arguments of its function-call part
\* are that object, key for key and value for value.
C10_ArgumentsRoundTrip ==
    (/\ call.op = "buildContents"
     /\ Focus.role = RoleAssistant
     /\ Len(Focus.toolCalls) >= 1)
    => LET t == IF Focus.content # EmptyStr THEN 1 ELSE 0
       IN  \A j \in 1..Len(Focus.toolCalls) :
               \A ms \in MemberLists, spaced \in BOOLEAN :
                   Focus.toolCalls[j].arguments = ObjectText(ms, spaced) =>
                       /\ call.out[FocusIdx].parts[t + j].kind = "functionCall"
                       /\ call.out[FocusIdx].parts[t + j].args = MapArgs(Denoted(ms))

C10_Witness ==
    /\ call.op = "buildContents"
    /\ Len(mem.msgs) = 1
    /\ Focus.role = RoleAssistant
    /\ Focus.content = Txt("Hello!")
    /\ Len(Focus.toolCalls) = 1
    /\ Focus.toolCalls[1].name = "get_weather"
    /\ Focus.toolCalls[1].arguments = ObjectText(<<MLocNYC>>, TRUE)
    /\ call.out[1].parts[2].args = MapArgs("location" :> StrTok("NYC"))

\* C11: a tool message with a non-empty toolCallID becomes exactly one
\* tool-result turn with the message's content, at the message's position:
\* in the Azure builder a tool turn keyed by the toolCallID, in the Gemini
\* builder a function response named metadata["tool_name"] when that is a
\* string, and "unknown" when the metadata is nil, has no such key, or holds
\* a value of another type under it.
C11_ToolResultTurn ==
    (/\ call.op \in {"buildContents", "buildMessages"}
     /\ Focus.role = RoleTool
     /\ Focus.toolCallID # "")
    => /\ Len(call.out) = Len(mem.msgs)
       /\ call.op = "buildMessages" =>
             /\ call.out[FocusIdx].role = "tool"
             /\ call.out[FocusIdx].content = Focus.content
             /\ call.out[FocusIdx].toolCallID = Focus.toolCallID
       /\ call.op = "buildContents" =>
             /\ Len(call.out[FocusIdx].parts) = 1
             /\ call.out[FocusIdx].parts[1].kind = "functionResponse"
             /\ call.out[FocusIdx].parts[1].text = Focus.content
             /\ call.out[FocusIdx].parts[1].name =
                   CASE Focus.metadata = NilMeta              -> "unknown"
                     [] Focus.metadata = Meta("none", "")     -> "unknown"
                     [] Focus.metadata = Meta("other", "")    -> "unknown"
                     [] Focus.metadata.toolName = "string"    -> Focus.metadata.name

C11_Witness ==
    /\ call.op = "buildContents"
    /\ Len(mem.msgs) = 3
    /\ Focus.role = RoleTool
    /\ Focus.toolCallID = "call_1"
    /\ Focus.content = Txt("Sunny")
    /\ Focus.metadata = Meta("other", "")
    /\ Len(call.out) = 3
    /\ call.out[2].parts = <<FunctionResponsePart("unknown", Txt("Sunny"))>>

\* C12: a system message is never dropped, whatever its content: the Azure
\* builder emits one system turn with the same content at the message's
\* position, the Gemini builder one user-role turn at the message's position
\* whose only part is the text "System: " followed by the content.
C12_SystemMessageKept ==
    (/\ call.op \in {"buildContents", "buildMessages"}
     /\ Focus.role = RoleSystem)
    => /\ Len(call.out) = Len(mem.msgs)
       /\ call.op = "buildMessages" =>
             /\ call.out[FocusIdx].role = "system"
             /\ call.out[FocusIdx].content = Focus.content
       /\ call.op = "buildContents" =>
             /\ call.out[FocusIdx].role = "user"
             /\ Len(call.out[FocusIdx].parts) = 1
             /\ call.out[FocusIdx].parts[1].kind = "text"
             /\ call.out[FocusIdx].parts[1].text = <<"System: ">> \o Focus.content

C12_Witness ==
    /\ call.op = "buildContents"
    /\ Len(mem.msgs) = 3
    /\ Focus = SystemMsg(Txt("Old system"))
    /\ Len(call.out) = 3
    /\ call.out[1].parts = <<TextPart(Txt("Hi"))>>
    /\ call.out[2].parts[1].text = <<"System: ", "Old system">>
    /\ call.out[3].parts = <<TextPart(Txt("Continue"))>>

\* GenerateWithTools is the call in progress or just returned.
InToolLoop == call.op = "GenerateWithTools"

\* The tool calls of the r-th answer; none when it failed or has no choice.
ReplyCalls(r) ==
    LET resp == call.replies[r]
    IN  IF ~resp.err /\ Len(resp.choices) > 0 THEN resp.choices[1].toolCalls
        ELSE << >>

AsksTools(r) == Len(ReplyCalls(r)) > 0

Blank(fragment) == fragment \in {" ", "\n", "\t"}

\* text is content without its leading and trailing white space.
Trimmed(content, text) ==
    /\ text # << >> => ~Blank(text[1]) /\ ~Blank(text[Len(text)])
    /\ \E a \in 0..Len(content) :
          /\ a + Len(text) <= Len(content)
          /\ \A i \in 1..a : Blank(content[i])
          /\ \A i \in 1..Len(text) : content[a + i] = text[i]
          /\ \A i \in (a + Len(text) + 1)..Len(content) : Blank(content[i])

\* C13: when the answer to the first request of GenerateWithTools carries no
\* tool call, the call has returned that answer's text without its leading
\* and trailing white space and a nil error, after exactly one vendor request
\* and no tool execution.
C13_NoToolCallsEndsFirstRound ==
    (/\ InToolLoop
     /\ Len(call.replies) >= 1
     /\ ~call.replies[1].err
     /\ Len(call.replies[1].choices) >= 1
     /\ call.replies[1].choices[1].toolCalls = << >>)
    => /\ call.pc = "done"
       /\ call.err = ""
       /\ Len(call.requests) = 1
       /\ Len(call.replies) = 1
       /\ call.executed = << >>
       /\ Trimmed(call.replies[1].choices[1].content, call.text)

C13_Witness ==
    /\ InToolLoop
    /\ call.pc = "done"
    /\ Len(call.requests) = 1
    /\ call.replies[1] =
          VendorChoices(<<VendorMessage(<<"\n", "Sunny", " ", "in NYC", "\t", "\n">>, << >>)>>)
    /\ call.text = <<"Sunny", " ", "in NYC">>
    /\ call.err = ""
    /\ call.executed = << >>

\* Every answer received so far asks for at least one tool call.
AlwaysAsksTools == \A r \in 1..Len(call.replies) : AsksTools(r)

\* The budget of rounds as the caller set it.
ExpectedMaxIterations ==
    IF call.maxIterationsOption = 0 THEN 10 ELSE call.maxIterationsOption

\* C14: GenerateWithTools never makes more vendor requests than the
\* MaxIterations option, or 10 when the option is zero; while every answer
\* asks for a tool call it goes on to the next request until it has made
\* exactly that many, then makes no further request and returns an empty
\* text with the iteration-budget error.
C14_IterationBudget ==
    InToolLoop =>
        /\ Len(call.requests) <= ExpectedMaxIterations
        /\ AlwaysAsksTools =>
              /\ call.pc = "done" =>
                    /\ Len(call.requests) = ExpectedMaxIterations
                    /\ call.text = EmptyStr
                    /\ call.err = "max iterations reached without a final answer"
              /\ (call.pc = "loop" /\ Len(call.requests) < ExpectedMaxIterations) =>
                    ENABLED ToolLoopRound /\ ~ENABLED ToolLoopExhausted
              /\ (call.pc = "loop" /\ Len(call.requests) = ExpectedMaxIterations) =>
                    ENABLED ToolLoopExhausted /\ ~ENABLED ToolLoopRound

C14_Witness ==
    /\ InToolLoop
    /\ call.maxIterationsOption = 0
    /\ AlwaysAsksTools
    /\ Len(call.requests) = 10
    /\ call.pc = "done"
    /\ call.text = EmptyStr
    /\ call.err = "max iterations reached without a final answer"

\* How many tool calls of the r-th answer have been processed.
Processed(r) ==
    IF r < Len(call.replies) THEN Len(ReplyCalls(r))
    ELSE Len(ReplyCalls(r)) - Len(call.pending)

\* The tool turn appended for the j-th tool call of the r-th answer: it
\* follows the list sent in round r and the assistant reply.
TurnOf(r, j) == call.messages[Len(call.requests[r]) + 1 + j]

\* The tools offered to the call, by name.
Offered(name) == name \in {"get_weather", "search"}

\* The errors GenerateWithTools returns, each with its own cause: the last
\* request failed, the last answer had no choice, or the budget of rounds is
\* used up by answers that all ask for tool calls.
OnlyLoopErrors ==
    /\ call.err \in {"", "failed to create chat completion", "no completions returned",
                     "max iterations reached without a final answer"}
    /\ call.err = "failed to create chat completion" =>
          call.replies[Len(call.replies)].err
    /\ call.err = "no completions returned" =>
          /\ ~call.replies[Len(call.replies)].err
          /\ call.replies[Len(call.replies)].choices = << >>
    /\ call.err = "max iterations reached without a final answer" =>
          AlwaysAsksTools /\ Len(call.requests) = call.maxIterations

\* Right after the j-th tool call of the r-th answer was processed the call
\* goes on: to the next tool call of the answer when there is one, and
\* otherwise to the next round, whose request it sends while the budget
\* lasts.
GoesOnAfter(r, j) ==
    (r = Len(call.replies) /\ j = Processed(r)) =>
        IF j < Len(ReplyCalls(r))
        THEN /\ call.pc = "tools"
             /\ Head(call.pending) = ReplyCalls(r)[j + 1]
             /\ ENABLED ToolLoopExecute
        ELSE /\ call.iteration = r
             /\ call.pc = "loop" =>
                   IF r < call.maxIterations THEN ENABLED ToolLoopRound
                   ELSE ENABLED ToolLoopExhausted
             /\ call.pc = "done" =>
                   call.err = "max iterations reached without a final answer"

\* C15: a tool call naming no offered tool is answered by a tool turn keyed
\* by the call's id whose text is "Error: tool not found: " followed by the
\* requested name; no tool is executed for it, the call returns no error
\* because of it, and it goes on to the remaining tool calls and to the next
\* round.
C15_ToolNotFoundIsATurn ==
    InToolLoop =>
        /\ OnlyLoopErrors
        /\ \A r \in 1..Len(call.replies) : \A j \in 1..Processed(r) :
              LET toolCall == ReplyCalls(r)[j]
              IN  ~Offered(toolCall.name) =>
                      /\ TurnOf(r, j).role = "tool"
                      /\ TurnOf(r, j).toolCallID = toolCall.id
                      /\ Len(TurnOf(r, j).content) = 2
                      /\ TurnOf(r, j).content[1] = "Error: tool not found: "
                      /\ TurnOf(r, j).content[2] = toolCall.name
                      /\ \A n \in 1..Len(call.executed) :
                            ~(call.executed[n].round = r /\ call.executed[n].id = toolCall.id)
                      /\ GoesOnAfter(r, j)

C15_Witness ==
    /\ InToolLoop
    /\ Len(call.replies) = 2
    /\ ReplyCalls(1) = <<CallMissing, CallKnown>>
    /\ call.pc = "done"
    /\ call.err = ""
    /\ call.text = Txt("Sunny in NYC")
    /\ call.requests[2][Len(call.requests[1]) + 2] =
          OpenAIToolMessage(<<"Error: tool not found: ", "lookup">>, "call_2")
    /\ Len(call.executed) = 1
    /\ call.executed[1].id = "call_1"

\* The index among the tool calls of the r-th answer of the call with this id.
CallIndex(r, id) == CHOOSE j \in 1..Len(ReplyCalls(r)) : ReplyCalls(r)[j].id = id

\* C16: when tool.Execute returns an error, the tool turn of that call, keyed
\* by its id, has the text "Error: " followed by the error's message; the
\* call returns no error because of it, and it goes on to the later tool
\* calls of the same answer and to the next round.
C16_ToolFailureIsATurn ==
    InToolLoop =>
        /\ OnlyLoopErrors
        /\ \A n \in 1..Len(call.executed) :
              LET e == call.executed[n]
                  j == CallIndex(e.round, e.id)
              IN  e.outcome = "err" =>
                      /\ j <= Processed(e.round)
                      /\ TurnOf(e.round, j).role = "tool"
                      /\ TurnOf(e.round, j).toolCallID = e.id
                      /\ TurnOf(e.round, j).content = <<"Error: ", "boom">>
                      /\ GoesOnAfter(e.round, j)

C16_Witness ==
    /\ InToolLoop
    /\ Len(call.replies) = 2
    /\ ReplyCalls(1) = <<CallKnown, CallSearch>>
    /\ Len(call.executed) = 2
    /\ call.executed[1].outcome = "err"
    /\ call.executed[2].outcome = "ok"
    /\ call.requests[2][Len(call.requests[1]) + 2] =
          OpenAIToolMessage(<<"Error: ", "boom">>, "call_1")
    /\ call.requests[2][Len(call.requests[1]) + 3] = OpenAIToolMessage(Txt("Sunny"), "call_3")
    /\ call.pc = "done"
    /\ call.err = ""

\* The executions made for the r-th answer, in the order made.
ExecutionsOf(r) == SelectSeq(call.executed, LAMBDA e : e.round = r)

\* The first n tool calls of the r-th answer that name an offered tool.
OfferedAmong(r, n) ==
    SelectSeq(SubSeq(ReplyCalls(r), 1, n), LAMBDA c : Offered(c.name))

\* C17: the list sent in round r+1 is the list sent in round r followed by
\* the assistant reply of round r with its tool calls c1..ck and then exactly
\* k tool turns, the j-th keyed by cj's id; the tools are executed one at a
\* time in the order of the calls, each offered one exactly once and with the
\* arguments of its call, and call j+1 is not executed before the tool turn
\* of call j is appended.
C17_ResultOrdering ==
    InToolLoop =>
        /\ \A r \in 1..(Len(call.requests) - 1) :
              LET prev == call.requests[r]
                  next == call.requests[r + 1]
                  calls == ReplyCalls(r)
                  k == Len(calls)
              IN  /\ k >= 1
                  /\ Len(next) = Len(prev) + 1 + k
                  /\ SubSeq(next, 1, Len(prev)) = prev
                  /\ next[Len(prev) + 1].role = "assistant"
                  /\ next[Len(prev) + 1].content = call.replies[r].choices[1].content
                  /\ next[Len(prev) + 1].toolCalls = calls
                  /\ \A j \in 1..k :
                        /\ next[Len(prev) + 1 + j].role = "tool"
                        /\ next[Len(prev) + 1 + j].toolCallID = calls[j].id
        /\ \A r \in 1..Len(call.replies) :
              LET done == OfferedAmong(r, Processed(r))
                  made == ExecutionsOf(r)
              IN  /\ Len(made) = Len(done)
                  /\ \A n \in 1..Len(made) :
                        /\ made[n].id = done[n].id
                        /\ made[n].name = done[n].name
                        /\ made[n].arguments = done[n].arguments
                  /\ AsksTools(r) =>
                        Len(call.messages) >= Len(call.requests[r]) + 1 + Processed(r)
                  /\ (AsksTools(r) /\ r = Len(call.replies)) =>
                        Len(call.messages) = Len(call.requests[r]) + 1 + Processed(r)
        /\ \A n \in 1..(Len(call.executed) - 1) :
              call.executed[n].round <= call.executed[n + 1].round

C17_Witness ==
    /\ InToolLoop
    /\ Len(call.requests) = 3
    /\ ReplyCalls(1) = <<CallMissing, CallKnown>>
    /\ ReplyCalls(2) = <<CallKnown, CallSearch>>
    /\ Len(call.requests[3]) = Len(call.requests[1]) + 6
    /\ <<call.executed[1].id, call.executed[2].id, call.executed[3].id>> =
          <<"call_1", "call_1", "call_3">>
    /\ <<call.executed[1].round, call.executed[2].round, call.executed[3].round>> =
          <<1, 2, 2>>
    /\ call.requests[3][Len(call.requests[2]) + 2].toolCallID = "call_1"
    /\ call.requests[3][Len(call.requests[2]) + 3].toolCallID = "call_3"

\* C18: when a request of GenerateWithTools fails, in whichever round, the
\* call has returned an empty text and the error that wraps the vendor's
\* error; the failed request is its last one, nothing was appended to the
\* message list, and no tool was executed in or after that round.
C18_VendorErrorEndsTheCall ==
    InToolLoop =>
        \A r \in 1..Len(call.replies) :
            call.replies[r].err =>
                /\ r = Len(call.replies)
                /\ Len(call.requests) = r
                /\ call.pc = "done"
                /\ call.text = EmptyStr
                /\ call.err = "failed to create chat completion"
                /\ call.wraps = call.replies[r].cause
                /\ call.wraps # ""
                /\ call.messages = call.requests[r]
                /\ \A n \in 1..Len(call.executed) : call.executed[n].round < r
                /\ ~ENABLED ToolLoopRound
                /\ ~ENABLED ToolLoopExecute

C18_Witness ==
    /\ InToolLoop
    /\ Len(call.requests) = 2
    /\ AsksTools(1)
    /\ call.replies[2] = VendorFailure("rate limited")
    /\ call.pc = "done"
    /\ call.err = "failed to create chat completion"
    /\ call.wraps = "rate limited"
    /\ Len(call.executed) = 2

\* C19: on a client built with WithRetry every round's network calls, in
\* Generate, in Chat and in each round of GenerateWithTools, go through the
\* retry executor, so a call is reported as failed only after the failed
\* round was attempted as often as the policy allows; the rounds of
\* GenerateWithTools are not run again: each request is longer than the one
\* before.
C19_EveryRoundThroughRetryExecutor ==
    (client.retryExecutor /\ call.op \in {"Generate", "Chat", "GenerateWithTools"}) =>
        /\ \A n \in 1..Len(call.rounds) : call.rounds[n].viaExecutor
        /\ (call.pc = "done" /\ call.wraps # "") =>
              call.rounds[Len(call.rounds)].attempts = MaxAttempts
        /\ InToolLoop =>
              \A r \in 1..(Len(call.requests) - 1) :
                  Len(call.requests[r]) < Len(call.requests[r + 1])

\* C19 for Generate and Chat alone: their one round goes through the retry
\* executor of a client that has one, and is attempted again after each
\* failure until an attempt succeeds or the policy's attempts are used up.
C19_GenerateAndChatThroughRetryExecutor ==
    call.op \in {"Generate", "Chat"} =>
        /\ Len(call.rounds) = 1
        /\ call.rounds[1].viaExecutor = client.retryExecutor
        /\ call.rounds[1].attempts = Len(call.replies)
        /\ Len(call.requests) = Len(call.replies)
        /\ Len(call.replies) <= (IF client.retryExecutor THEN MaxAttempts ELSE 1)
        /\ \A n \in 1..(Len(call.replies) - 1) : call.replies[n].err
        /\ (client.retryExecutor /\ call.wraps # "") => Len(call.replies) = MaxAttempts
        /\ call.wraps # "" <=> call.replies[Len(call.replies)].err

C19_GenerateAndChatWitness ==
    /\ client.retryExecutor
    /\ call.op = "Chat"
    /\ Len(call.replies) = 2
    /\ call.replies[1] = VendorFailure("rate limited")
    /\ call.text = Txt("Hello!")
    /\ call.err = ""

\* C20: when a request succeeds with zero choices, Generate, Chat and
\* GenerateWithTools have each returned an empty text and an error; that
\* request is the call's last one, and in GenerateWithTools nothing was
\* appended to the message list and no tool was executed in that round.
C20_NoChoicesIsFatal ==
    call.op \in {"Generate", "Chat", "GenerateWithTools"} =>
        \A r \in 1..Len(call.replies) :
            (~call.replies[r].err /\ call.replies[r].choices = << >>) =>
                /\ r = Len(call.replies)
                /\ Len(call.requests) = r
                /\ call.pc = "done"
                /\ call.text = EmptyStr
                /\ call.err = IF call.op = "Generate" THEN "no response from OpenAI API"
                              ELSE "no completions returned"
                /\ InToolLoop =>
                      /\ call.messages = call.requests[r]
                      /\ \A n \in 1..Len(call.executed) : call.executed[n].round < r
                      /\ ~ENABLED ToolLoopRound
                      /\ ~ENABLED ToolLoopExecute

C20_Witness ==
    /\ InToolLoop
    /\ Len(call.requests) = 2
    /\ AsksTools(1)
    /\ call.replies[2] = VendorChoices(<< >>)
    /\ call.pc = "done"
    /\ call.text = EmptyStr
    /\ call.err = "no completions returned"
    /\ call.messages = call.requests[2]
    /\ Len(call.executed) = 2


\* The temperature the caller asked for: the last WithTemperature among the
\* options, else the temperature the call starts from; Chat is handed it.
RequestedTemperature ==
    IF call.op = "Chat" THEN call.config.Temperature
    ELSE LET set == {i \in DOMAIN call.options : call.options[i].fn = "WithTemperature"}
         IN  IF set = {} THEN DefaultTemperature
             ELSE call.options[CHOOSE i \in set : \A j \in set : j <= i].num

\* C21: on a client whose model name starts with a reasoning prefix, every
\* request of Generate, of Chat and of every round of GenerateWithTools
\* carries temperature 1.0 and no top-p, whatever temperature was asked for;
\* on any other model the request carries the temperature asked for, and a
\* top-p.
C21_ReasoningNormalization ==
    call.op \in {"Generate", "Chat", "GenerateWithTools"} =>
        \A i \in DOMAIN call.sent :
            IF \E k \in DOMAIN reasoningModels : HasPrefix(client.Model, reasoningModels[k])
            THEN /\ call.sent[i].Temperature = Float(10)
                 /\ ~call.sent[i].TopP.set
            ELSE /\ call.sent[i].Temperature = Float(RequestedTemperature)
                 /\ call.sent[i].TopP.set

C21_Witness ==
    /\ call.op = "GenerateWithTools"
    /\ client.Model = <<"o", "3", "-", "m", "i", "n", "i">>
    /\ RequestedTemperature = 2
    /\ Len(call.sent) >= 2
    /\ \A i \in DOMAIN call.sent : ~call.sent[i].TopP.set


\* The call was made with WithTemperature alone among the options that
\* touch the LLM configuration, on a model without a reasoning prefix.
TemperatureOnly ==
    /\ Len(call.options) = 1
    /\ call.options[1].fn = "WithTemperature"
    /\ ~isReasoningModel(client.Model)

\* C26: a call of Generate or GenerateWithTools with WithTemperature(t) and
\* no other option on the LLM configuration, on a model without a reasoning
\* prefix, does not fault while its options are applied, and every request
\* it sends carries temperature t.
C26_WithTemperatureApplies ==
    (call.op \in {"Generate", "GenerateWithTools"} /\ TemperatureOnly) =>
        /\ call.pc # "panic"
        /\ \A i \in DOMAIN call.sent :
              call.sent[i].Temperature = Float(call.options[1].num)

\* The part of C26 that holds: Generate applies WithTemperature to the
\* configuration it starts from.
C26_GenerateWithTemperature ==
    (call.op = "Generate" /\ TemperatureOnly) =>
        /\ call.pc # "panic"
        /\ call.sent # << >>
        /\ \A i \in DOMAIN call.sent :
              call.sent[i].Temperature = Float(call.options[1].num)

C26_GenerateWitness ==
    /\ call.op = "Generate"
    /\ TemperatureOnly
    /\ call.sent # << >>
    /\ call.sent[1].Temperature = Float(2)


\* C22: across a call of Generate or GenerateWithTools the client only
\* reads the Memory Store: the one method it calls is GetMessages, at most
\* once per call, and the store holds after every step of the call what it
\* held before; the replies and tool turns of the loop are appended to the
\* call's own message list, after the messages it was built with.
C22_MemoryOnlyRead ==
    call.op \in {"Generate", "GenerateWithTools"} =>
        /\ mem = call.store
        /\ Len(call.memoryCalls) <= 1
        /\ \A i \in DOMAIN call.memoryCalls : call.memoryCalls[i].method = "GetMessages"
        /\ call.op = "GenerateWithTools" =>
              /\ Len(call.messages) >= Len(call.out)
              /\ SubSeq(call.messages, 1, Len(call.out)) = call.out
              /\ \A r \in DOMAIN call.requests :
                    SubSeq(call.messages, 1, Len(call.requests[r])) = call.requests[r]

C22_Witness ==
    /\ call.op = "GenerateWithTools"
    /\ call.pc = "done"
    /\ call.err = ""
    /\ call.store.kind = "ok"
    /\ Len(mem.msgs) = 3
    /\ Len(call.memoryCalls) = 1
    /\ Len(call.executed) >= 2
    /\ Len(call.messages) >= Len(call.out) + 4


\* The call the middleware received.
Received == call.span.received[1]

C23_GenerateWitness ==
    /\ call.span.name = "llm.generate"
    /\ call.span.returned
    /\ call.span.err = ""
    /\ call.span.response = Txt("Hello!")


\* C24: across the rounds of one GenerateWithTools call only the message
\* list changes: every round's request carries the tool definitions built
\* from the call's tools before the loop, and the same model, temperature,
\* penalties, top-p and stop sequences as the first round's.
C24_OnlyMessagesChange ==
    call.op = "GenerateWithTools" =>
        \A r \in DOMAIN call.sent :
            /\ call.sent[r].Tools = openaiTools(ToolValues)
            /\ call.sent[r].Tools = call.sent[1].Tools
            /\ call.sent[r].Model = client.Model
            /\ call.sent[r].Temperature = call.sent[1].Temperature
            /\ call.sent[r].FrequencyPenalty = call.sent[1].FrequencyPenalty
            /\ call.sent[r].PresencePenalty = call.sent[1].PresencePenalty
            /\ call.sent[r].TopP = call.sent[1].TopP
            /\ call.sent[r].Stop = call.sent[1].Stop
            /\ call.sent[r] = call.sent[1]

C24_Witness ==
    /\ call.op = "GenerateWithTools"
    /\ Len(call.sent) >= 3
    /\ Len(call.sent[3].Tools) = 2
    /\ call.sent[3].Stop = <<"END">>
    /\ call.sent[3].Temperature = Float(2)
    /\ call.sent[3].TopP = Float(9)
    /\ Len(call.requests[3]) > Len(call.requests[2])
    /\ Len(call.requests[2]) > Len(call.requests[1])


\* GenerateWithTools has returned: a final answer, or an error.
Returned == call.op = "GenerateWithTools" /\ call.pc = "done"

\* C25: provided each vendor call and each tool execution returns, a
\* GenerateWithTools call that has entered its loop eventually returns, with
\* a final answer or with an error; it never sends more than maxIterations
\* requests; and once it has returned no request is sent and no tool is
\* executed for it.
C25_Termination ==
    /\ [](call.op = "GenerateWithTools" =>
            /\ Len(call.requests) <= ExpectedMaxIterations
            /\ Len(call.requests) <= call.iteration + 1)
    /\ [][Returned => (call' = Idle)]_vars
    /\ (call.op = "GenerateWithTools" /\ call.pc \in {"loop", "tools"}) ~> Returned

\* A call has returned for want of a final answer after the ten requests of
\* the default budget.
C25_Witness ==
    /\ Returned
    /\ call.maxIterationsOption = 0
    /\ Len(call.requests) = 10
    /\ Len(call.executed) >= 10
    /\ call.err = "max iterations reached without a final answer"

====
